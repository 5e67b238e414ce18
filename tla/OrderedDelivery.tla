--------------------------- MODULE OrderedDelivery ---------------------------
(***************************************************************************)
(* What one order-book session promises its client, independently of how   *)
(* the gateway queues: the items written to the stream are numbered        *)
(* 1, 2, 3, ...; the first is the acceptance, the second a book snapshot,  *)
(* and every later one is the next book version of the same connection     *)
(* generation or a gap notice, after which nothing is written any more.    *)
(* An item is a record with the fields seq, kind, gen and ver.             *)
(***************************************************************************)
EXTENDS Naturals, Sequences

VARIABLES
    delivered,   \* the items written so far
    open         \* the stream has not been finished

abstractVars == <<delivered, open>>

\* item may be the next one of the stream.
Follows(item) ==
    LET n == Len(delivered) IN
    /\ item.seq = n + 1
    /\ \/ n = 0 /\ item.kind = "Accepted"
       \/ n = 1 /\ item.kind = "Snapshot"
       \/ /\ n >= 2
          /\ delivered[n].kind # "Gap"
          /\ \/ item.kind = "Gap"
             \/ /\ item.kind = "Update"
                /\ item.gen = delivered[n].gen
                /\ item.ver = delivered[n].ver + 1

Init == delivered = <<>> /\ open = TRUE

Deliver ==
    /\ open
    /\ Len(delivered') = Len(delivered) + 1
    /\ delivered = SubSeq(delivered', 1, Len(delivered))
    /\ Follows(delivered'[Len(delivered')])
    /\ UNCHANGED open

Finish == open /\ open' = FALSE /\ UNCHANGED delivered

Next == Deliver \/ Finish

Spec == Init /\ [][Next]_abstractVars

=============================================================================
