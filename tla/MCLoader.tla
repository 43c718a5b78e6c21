------------------------------- MODULE MCLoader -------------------------------
\* An instance of Loader for TLC.
EXTENDS Loader

Good(i) == [id |-> i, service |-> 1, mappable |-> TRUE]

\* A repeated id, a row without a service, more good rows than the channel of
\* two workers holds, and a last one that cannot be mapped.
Mixed == <<Good(1), Good(1), [Good(2) EXCEPT !.service = Nil], Good(3), Good(4),
           Good(5), Good(6), Good(7), [Good(8) EXCEPT !.mappable = FALSE]>>
=============================================================================
