----------------------------- MODULE MCProducer -----------------------------
EXTENDS Producer

\* Events ingest refuses that were issued.
Refused == {n \in Rejected : carries[n] # {}}

\* One thing goes wrong: a process dies, one of its steps fails, or an event is
\* refused.  producer_live has a death and a failure in the same behaviour.
OneFailure == crashes + faults + Cardinality(Refused) =< 1
=============================================================================
