------------------------------ MODULE LinkIntent ------------------------------
(***************************************************************************)
(* The link review with what people meant by their edits and removals:     *)
(* history variables beside LinkReview, which no action of it reads.       *)
(***************************************************************************)
EXTENDS LinkReview

VARIABLES
  safe,     \* URLs an outside editor added where every strike can see them
  erased,   \* URLs an outside editor deleted where every strike can see it
  removed,  \* URLs whose strike came back with success
  held,     \* what each pass found in the cache, or has written there
  vanished  \* of those, what another writer has since removed

intentVars == <<safe, erased, removed, held, vanished>>
intendedVars == <<vars, intentVars>>

\* Between its second read of the bookmarks and its write, a strike no longer
\* sees an edit: the window the code declares it cannot close.
InWindow(h) == pc[h] \in {"backup", "write"}
WindowOpen  == \E h \in Hand : InWindow(h)

Striking(h) == pc[h] \in {"read", "reread", "backup", "write"}
Wanted      == UNION {targets[h] : h \in {x \in Hand : Striking(x)}}

IntentInit ==
  /\ Init
  /\ safe = {} /\ erased = {} /\ removed = {}
  /\ held = [p \in Pass |-> {}]
  /\ vanished = [p \in Pass |-> {}]

Intend ==
  \E u \in Url :
    \/ /\ EditAdd(u)
       /\ safe' = IF WindowOpen \/ u \in Wanted THEN safe ELSE safe \cup {u}
       /\ erased' = erased \ {u}
       /\ removed' = removed \ {u}
       /\ UNCHANGED <<held, vanished>>
    \/ /\ EditDelete(u)
       /\ safe' = safe \ {u}
       /\ erased' = IF WindowOpen THEN erased ELSE erased \cup {u}
       /\ UNCHANGED <<removed, held, vanished>>

\* What a strike that ends in this step has struck, or found already gone.  A
\* strike that ends inside another's window is not seen there: that one may still
\* write back what it has read.
Alone(h) == \A g \in Hand \ {h} : ~ InWindow(g)

Struck ==
  UNION {targets[h] : h \in {x \in Hand : pc[x] \in {"read", "write"} /\ pc'[x] = "lock" /\ Alone(x)}}

Present(c) == {u \in Url : c[u] # Absent}

\* What each pass has had in hand: its loading and its own saves add to it, its
\* end clears it.
Holding ==
  held' = [p \in Pass |->
             IF pc'[p] = "idle" THEN {}
             ELSE IF pc[p] = "load" /\ pc'[p] = "check" THEN Present(cache)
             ELSE IF lock = p THEN held[p] \cup {u \in Url : cache'[u] # cache[u]}
             ELSE held[p]]

Vanishing ==
  vanished' = [p \in Pass |->
                 IF pc'[p] = "idle" THEN {}
                 ELSE IF lock = p THEN vanished[p]
                 ELSE (vanished[p] \cup (held[p] \cap (Present(cache) \ Present(cache'))))
                      \ (Present(cache') \ Present(cache))]

Proceed ==
  /\ Checking \/ RoomStep \/ Tick
  /\ safe' = safe \ UNION {targets'[h] : h \in {x \in Hand : pc'[x] = "read"}}
  /\ removed' = removed \cup Struck
  /\ UNCHANGED erased
  /\ Holding
  /\ Vanishing

IntentNext == Intend \/ Proceed

IntentSpec == IntentInit /\ [][IntentNext]_intendedVars

-------------------------------------------------------------------------------
(* Properties.                                                             *)

\* No strike erases what an editor added, or brings back what one deleted,
\* outside the window between its second read and its write (strike_bookmarks).
EditsSurvive == safe \subseteq bookmarks /\ erased \cap bookmarks = {}

\* What a purge's or a remove's strike succeeded on, while no other was inside its
\* window, is out of the bookmarks file until an editor puts it back: a strike that had
\* read the file before reads it again (strike_bookmarks, PurgeView::execute,
\* LinkAction::remove).
RemovedStaysOut == removed \cap bookmarks = {}

\* An entry that a pass knew and that somebody removed while the pass ran is not
\* written back by that pass (PassLedger::write).
NoResurrection == \A p \in Pass : \A u \in vanished[p] : cache[u] = Absent
===============================================================================
