-------------------------- MODULE MCAuditionReview --------------------------
(* A small instance of AuditionReview: a narrator and one character, from   *)
(* the books of a cast whose auditions were all approved, built with the    *)
(* operators of the handlers that lead to them: the dictionary has an       *)
(* approved entry, and in one of them a pending one that would replace it   *)
(* for the character.  The character's clip speaks the word.                *)
EXTENDS AuditionReview

MCRoles == <<"narrator", "hero">>

MCWorld == [tuple |-> 1, cast |-> 1, current |-> TRUE, verification |-> 1]

\* Two sessions with a clip each.
Auditioned ==
  LET session(r) == [role |-> r, tuple |-> 1, cast |-> 1, dictionary |-> 1,
                     verification |-> 1, state |-> "generating", request |-> "running"]
      entry == [scope |-> "project", state |-> "approved", revision |-> 2, line |-> {}]
      empty == [sessions |-> [n \in DOMAIN Roles |-> session(Roles[n])],
                clips |-> <<>>, audio |-> <<>>, entries |-> <<entry>>, dictionary |-> 1,
                decided |-> [x \in Role \cup Gate |-> Undecided],
                shown |-> [g \in Gate |-> <<>>], ready |-> <<>>, verdict |-> Undecided]
  IN Published(Published(empty, 1, FALSE, 1), 2, TRUE, 2)

\* The current review of each x of xs approved in turn.
RECURSIVE ApprovedInTurn(_, _)
ApprovedInTurn(b, xs) ==
  IF xs = <<>> THEN b
  ELSE LET c == Refreshed(b, MCWorld) IN
       ApprovedInTurn(Decided(c, Head(xs), CurrentReview(c, MCWorld, Head(xs)), "approved"),
                      Tail(xs))

Finished ==
  LET b == Refreshed(ApprovedInTurn(Auditioned,
             <<"narrator", "hero", "narrators", "characters", "pronunciation">>), MCWorld)
  IN Verdict(b, Len(b.ready), "approved")

MCInit ==
  /\ world = MCWorld /\ changes = 0
  /\ book \in {Finished, Entered(Finished, "hero", 1)}
MCSpec == MCInit /\ [][AuditionNext]_auditionVars
=============================================================================
