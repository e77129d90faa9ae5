---------------------------- MODULE MappedStore ----------------------------
(***************************************************************************)
(* What the artifact cache promises a process that maps a library from it: *)
(* while an entry has a reader, its library is neither replaced nor        *)
(* removed.  Readers come and go on their own; the disk may damage bytes   *)
(* at any time.                                                            *)
(***************************************************************************)

CONSTANTS
    Entries,    \* the keys of the store
    Readers,    \* processes that may map an entry
    Contents,   \* what an entry may hold
    Missing,    \* an absent entry
    Damaged     \* bytes nobody published

VARIABLES
    content,    \* content[e]: what entry e holds
    reads       \* reads[p]: the entries reader p has mapped

storeVars == <<content, reads>>

Init ==
    /\ content = [e \in Entries |-> Missing]
    /\ reads = [p \in Readers |-> {}]

Unread(e) == \A p \in Readers : e \notin reads[p]

\* A first publication, or the repair of a damaged or unverifiable entry.
Publish(e, c) ==
    /\ Unread(e)
    /\ content' = [content EXCEPT ![e] = c]
    /\ UNCHANGED reads

Remove(e) ==
    /\ Unread(e)
    /\ content' = [content EXCEPT ![e] = Missing]
    /\ UNCHANGED reads

Attach(p, e) ==
    /\ content[e] # Missing
    /\ reads' = [reads EXCEPT ![p] = @ \cup {e}]
    /\ UNCHANGED content

Detach(p) ==
    /\ reads' = [reads EXCEPT ![p] = {}]
    /\ UNCHANGED content

Damage(e) ==
    /\ content[e] # Missing
    /\ content' = [content EXCEPT ![e] = Damaged]
    /\ UNCHANGED reads

Next ==
    \/ \E e \in Entries : Remove(e) \/ Damage(e) \/ \E c \in Contents : Publish(e, c)
    \/ \E p \in Readers : Detach(p) \/ \E e \in Entries : Attach(p, e)

Spec == Init /\ [][Next]_storeVars

=============================================================================
