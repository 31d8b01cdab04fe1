------------------------------- MODULE Delivery -------------------------------
(***************************************************************************)
(* What the two programs promise together, with no buffer, connection,     *)
(* thread or queue in between: a producer offers records 0, 1, 2, ... and  *)
(* begins again with 0 in a new life when it is restarted; the archive     *)
(* only grows, and only with records that were offered, each at most once  *)
(* and in the order in which they were.  Records may be missing.           *)
(* StreamSystem implements this module.                                    *)
(***************************************************************************)
EXTENDS Integers, Sequences

VARIABLES
    offers,             \* how many records each life has offered; the last runs
    archive             \* the records archived: life and number

vars == <<offers, archive>>

Init ==
    /\ offers = <<0>>
    /\ archive = <<>>

Offer ==
    /\ offers' = [offers EXCEPT ![Len(offers)] = @ + 1]
    /\ UNCHANGED archive

Restart ==
    /\ offers' = Append(offers, 0)
    /\ UNCHANGED archive

Before(a, b) == a.life < b.life \/ (a.life = b.life /\ a.n < b.n)

Offered(r) == r.life \in DOMAIN offers /\ r.n < offers[r.life]

\* One or more records are added at the end.
Deliver ==
    /\ Len(archive') > Len(archive)
    /\ SubSeq(archive', 1, Len(archive)) = archive
    /\ \A i \in Len(archive) + 1 .. Len(archive') :
          /\ i > 1 => Before(archive'[i - 1], archive'[i])
          /\ Offered(archive'[i])
    /\ UNCHANGED offers

Next == Offer \/ Restart \/ Deliver

Spec == Init /\ [][Next]_vars
===============================================================================
