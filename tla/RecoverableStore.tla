-------------------------- MODULE RecoverableStore --------------------------
(***************************************************************************)
(* What opening the project database promises, whatever crashes and        *)
(* however many processes take part: the content moves to the next schema  *)
(* version only from a content that is kept as a recovery point and with   *)
(* its data unchanged, a recovery point is never rewritten, and a content  *)
(* that no release has issued is left as it is.                            *)
(***************************************************************************)
EXTENDS Naturals, Sequences

CONSTANTS Latest,    \* the schema version of this release
          Missing,   \* no recovery point of a version
          Damaged    \* a recovery point that something outside damaged

VARIABLES content,   \* what the database file holds
          kept       \* kept[v]: the recovery point of version v

vars == <<content, kept>>

\* The rows of a content: what a logical digest covers.
Rows(c) == <<c.version, c.ledger, c.data>>

Accepted == content.issued /\ content.version \in 0 .. Latest

Old == 1 .. Latest - 1

Init == content.journal = "delete" /\ kept = [v \in Old |-> Missing]

Keep ==
  /\ Accepted
  /\ content.version \in Old
  /\ kept[content.version] = Missing
  /\ kept' = [kept EXCEPT ![content.version] = Rows(content)]
  /\ UNCHANGED content

EnableWal ==
  /\ Accepted
  /\ content' = [content EXCEPT !.journal = "wal"]
  /\ UNCHANGED kept

Create ==
  /\ Accepted
  /\ content.version = 0
  /\ content' = [content EXCEPT !.version = Latest, !.ledger = content'.ledger]
  /\ Len(content'.ledger) = Latest
  /\ UNCHANGED kept

Advance ==
  /\ Accepted
  /\ content.version \in Old
  /\ kept[content.version] = Rows(content)
  /\ content' = [content EXCEPT !.version = @ + 1, !.ledger = content'.ledger]
  /\ Len(content'.ledger) = content'.version
  /\ SubSeq(content'.ledger, 1, content.version) = content.ledger
  /\ UNCHANGED kept

\* A release works with a database of its own version.
Write ==
  /\ Accepted
  /\ content.version > 0
  /\ content' = [content EXCEPT !.data = content'.data]
  /\ UNCHANGED kept

\* The operator goes back to a recovery point.
Restore ==
  /\ \E v \in Old : kept[v] = Rows(content')
  /\ UNCHANGED kept

\* Something outside damages a recovery point.
Lose ==
  /\ \E v \in Old : kept[v] # Missing /\ kept' = [kept EXCEPT ![v] = Damaged]
  /\ UNCHANGED content

Next == Keep \/ EnableWal \/ Create \/ Advance \/ Write \/ Restore \/ Lose

Spec == Init /\ [][Next]_vars
=============================================================================
