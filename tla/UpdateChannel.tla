---------------------------- MODULE UpdateChannel ----------------------------
(***************************************************************************)
(* What the bridge promises the gRPC service, without threads, locks or    *)
(* batches: the updates it accepts reach the outstation one at a time, in  *)
(* the order of their acceptance, none twice and none skipped.             *)
(***************************************************************************)
EXTENDS Naturals, Sequences

CONSTANT Updates    \* the point updates

VARIABLES
    accepted,       \* every update accepted so far, in order
    delivered       \* every update applied to the outstation so far, in order

Init ==
    /\ accepted = <<>>
    /\ delivered = <<>>

Accept(u) ==
    /\ accepted' = Append(accepted, u)
    /\ UNCHANGED delivered

Deliver ==
    /\ Len(delivered) < Len(accepted)
    /\ delivered' = Append(delivered, accepted[Len(delivered) + 1])
    /\ UNCHANGED accepted

Next == (\E u \in Updates : Accept(u)) \/ Deliver

Spec == Init /\ [][Next]_<<accepted, delivered>>

=============================================================================
