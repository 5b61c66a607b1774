------------------------- MODULE ModelPackagesProofs -------------------------
(* Proofs about ModelPackages, for any number of faults.                    *)
(*                                                                          *)
(* The properties speak of a package between requests, or of its bytes      *)
(* wherever they are; none is inductive.  The inductive invariant says what *)
(* holds in the middle of a request: which row admitted it (OpRows), what   *)
(* it knows of the bytes at each step (OpBytes), that a directory is aside  *)
(* only for the request that set it aside (OneAside), and where the bytes   *)
(* of a listed installation are (Somewhere, Undamaged).  A start finds at   *)
(* most one directory, so it puts back or deletes the right one.            *)
EXTENDS ModelPackages, TLAPS, FiniteSetTheorems

\* Every variable has its type.
RowStates == Installed \cup {"none", "removed", "repair_required"}

Typed ==
  /\ service \in {"down", "up"} /\ refused \in {"no", "collision", "delete"}
  /\ place \in Bytes /\ spare \in Bytes /\ tomb \in [Tomb -> Bytes]
  /\ leftover \in BOOLEAN /\ marker \in BOOLEAN /\ work \in BOOLEAN
  /\ row \in RowStates /\ checked \in {"none", "verified", "failed"}
  /\ faults \in 0 .. MaxFaults /\ caveat \subseteq Caveats

\* The steps of a request of each kind.
StepsOf(kind) ==
  CASE kind = "install" -> {"files", "publish", "check", "persist", "undo", "delete", "deleting"}
    [] kind = "repair" -> {"files", "publish", "check", "swap", "drop", "persist"}
    [] kind = "verify" -> {"files", "persist"}
    [] kind \in {"activate", "deactivate"} -> {"files", "persist", "undo"}
    [] kind = "remove" -> {"files", "persist", "undo", "delete", "deleting"}

Deleting == op.step \in {"delete", "deleting"}

\* What a request remembers at each step.
OpShape ==
  /\ op = [kind |-> op.kind, step |-> op.step, note |-> op.note]
  /\ \/ op = Idle
     \/ op.kind \in Kinds /\ op.step \in StepsOf(op.kind) /\ service = "up"
  /\ Deleting => op.note \in Tomb
  /\ At({"remove"}, "undo") => op.note \in Tomb
  /\ At({"remove"}, "persist") => op.note \in Tomb \cup {"nothing"}
  /\ op.step \in {"files", "publish", "check", "swap", "drop"} => op.note = "none"
  /\ At({"install", "repair"}, "persist") => op.note = "none"
  /\ At({"verify"}, "persist") => op.note \in {"verified", "failed"}

\* What the rows say while a request of each kind runs.
OpRows ==
  /\ op.kind = "install" => row \in {"none", "removed"}
  /\ op.kind = "repair" => row \in {"installed", "inactive", "repair_required"}
  /\ op.kind = "activate" => row \in Installed
  /\ op.kind = "deactivate" => row = "active"
  /\ op.kind = "verify" => row # "removed"
  /\ op.kind = "remove" => IF Deleting THEN row = "removed" ELSE row = "inactive" /\ ~work
  /\ work => row # "removed"

\* What a request knows of the bytes.
OpBytes ==
  /\ Present(spare) => op.step \in {"swap", "drop"}
  /\ op.step = "swap" => place = "absent"
  /\ "damage" \notin caveat =>
       /\ op.kind \in {"install", "repair"} /\ op.step \in {"check", "drop", "persist"} => place = "exact"
       /\ At({"activate"}, "persist") => place = "exact"
       /\ At({"verify"}, "persist") /\ op.note = "verified" => place = "exact"

\* The request that set a directory aside.
Owner(t) ==
  /\ op.note = t
  /\ \/ op.kind = "remove" /\ op.step \in {"persist", "undo", "delete", "deleting"}
     \/ op.kind = "install" /\ Deleting

OneAside ==
  caveat \cap {"not undone", "not deleted"} = {} =>
    /\ refused # "collision"
    /\ \A t \in Pending : place = "absent" /\ (service = "up" => Owner(t))
    /\ \A t, u \in Pending : t = u

\* Where the bytes of a listed installation are.
Somewhere ==
  "damage" \notin caveat /\ row \in Installed =>
    \/ place = "exact" \/ spare = "exact" \/ leftover \/ \E t \in Tomb : tomb[t] = "exact"

Undamaged ==
  caveat = {} =>
    /\ place # "wrong" /\ spare # "wrong"
    /\ \A t \in Tomb : tomb[t] = "wrong" => row = "removed" \/ At({"install"}, "deleting")
    /\ row \in Installed => \/ place = "exact" \/ (op.step = "swap" /\ spare = "exact")
                            \/ \E t \in Tomb : tomb[t] = "exact"

Inv == Typed /\ OpShape /\ OpRows /\ OpBytes /\ OneAside /\ Somewhere /\ Undamaged

----------------------------------------------------------------------------
\* A request goes on with the same kind, or ends.
NextOp(kind, step, note) ==
  /\ op' = [kind |-> kind, step |-> step, note |-> note]
  /\ op'.kind = kind /\ op'.step = step /\ op'.note = note

LEMMA OpAfter ==
  ASSUME op = [kind |-> op.kind, step |-> op.step, note |-> op.note]
  PROVE  /\ \A s : Go(s) => NextOp(op.kind, s, op.note)
         /\ \A n, s : Keep(n, s) => NextOp(op.kind, s, n)
         /\ Finish => NextOp("none", "none", "none")
<1>1. ASSUME NEW s, Go(s)
      PROVE  op' = [kind |-> op.kind, step |-> s, note |-> op.note]
  BY <1>1 DEF Go
<1>2. ASSUME NEW n, NEW s, Keep(n, s)
      PROVE  op' = [kind |-> op.kind, step |-> s, note |-> n]
  BY <1>2 DEF Keep
<1> QED
  BY <1>1, <1>2 DEF NextOp, Finish, Idle

\* A fault is counted.
LEMMA FaultTyped ==
  ASSUME Inv
  PROVE  Fault => faults' \in 0 .. MaxFaults
  BY FaultAssumption DEF Inv, Typed, Fault

\* Only a removal and the undo of an install have a directory aside.
LEMMA NoneAside ==
  ASSUME Inv, service = "up", \A t \in Tomb : ~Owner(t),
         caveat \cap {"not undone", "not deleted"} = {}
  PROVE  Pending = {} /\ \A t \in Tomb : tomb[t] = "absent"
<1>1. Pending = {}
  BY DEF Inv, OneAside, Pending
<1> QED
  BY <1>1 DEF Pending, Present

\* Which requests have which steps, all of them while the service is up.
StepKinds ==
  /\ op.step # "none" => service = "up"
  /\ op.step \in {"publish", "check"} => op.kind \in {"install", "repair"}
  /\ op.step \in {"swap", "drop"} => op.kind = "repair"
  /\ op.step = "undo" => op.kind \in {"install", "activate", "deactivate", "remove"}
  /\ Deleting => op.kind \in {"install", "remove"}
  /\ op.step = "persist" => op.kind \in Kinds
  /\ op.kind = "none" => op.step = "none"

LEMMA StepsHaveKinds ==
  ASSUME OpShape
  PROVE  StepKinds
  BY DEF OpShape, StepKinds, StepsOf, Kinds, Deleting, Idle

\* What the transaction writes.
LEMMA RowAfter ==
  ASSUME Inv, Persist
  PROVE  /\ op.kind \in {"install", "repair"} => row' = "installed"
         /\ op.kind = "verify" =>
              row' = IF op.note = "failed" THEN "repair_required"
                     ELSE IF row = "active" THEN "active" ELSE "installed"
         /\ op.kind = "activate" => row' = "active"
         /\ op.kind = "deactivate" => row' = "inactive"
         /\ op.kind = "remove" => row' = "removed"
         /\ op.kind \in Kinds
         /\ checked' \in {"none", "verified", "failed"}
<1>1. op.kind \in Kinds
  BY StepsHaveKinds DEF Inv, StepKinds, Persist
<1>2. checked' \in {"none", "verified", "failed"}
  BY <1>1 DEF Inv, Typed, OpShape, Persist, At, Kinds
<1> QED
  BY <1>1, <1>2 DEF Persist, NextRow, Kinds

\* The package is set aside under a name that was free.
LEMMA StageShape ==
  ASSUME Inv, StageRemove
  PROVE  \E t \in Tomb :
           /\ tomb[t] = "absent" /\ tomb' = [tomb EXCEPT ![t] = place] /\ place' = "absent"
           /\ NextOp(op.kind, IF op.kind = "remove" THEN "persist" ELSE "delete", t)
<1>1. PICK t \in Tomb : ~Present(tomb[t])
  BY DEF StageRemove, Pending
<1>2. FreshTomb \in Tomb /\ ~Present(tomb[FreshTomb])
  BY <1>1 DEF FreshTomb
<1>3. PICK u : u = FreshTomb
  OBVIOUS
<1>4. op' = [op EXCEPT !.note = u, !.step = IF op.kind = "remove" THEN "persist" ELSE "delete"]
  BY <1>3 DEF StageRemove
<1>5. op = [kind |-> op.kind, step |-> op.step, note |-> op.note]
  BY DEF Inv, OpShape
<1>6. NextOp(op.kind, IF op.kind = "remove" THEN "persist" ELSE "delete", u)
  BY <1>4, <1>5 DEF NextOp
<1> QED
  BY <1>2, <1>3, <1>6 DEF StageRemove, Present

\* With at most one directory aside, every one of them is the same.
LEMMA OneIsSame ==
  ASSUME ~(Cardinality(Pending) > 1), NEW t \in Pending, NEW u \in Pending
  PROVE  t = u
<1> SUFFICES ASSUME t # u PROVE FALSE
  OBVIOUS
<1>1. IsFiniteSet(Pending)
  BY TombAssumption, FS_Subset DEF Pending
<1>2. Cardinality({t}) = 1 /\ IsFiniteSet({t})
  BY FS_Singleton
<1>3. Cardinality({t} \cup {u}) = 2
  BY <1>2, FS_AddElement
<1>4. Cardinality({t} \cup {u}) <= Cardinality(Pending)
  BY <1>1, FS_Subset
<1>5. Cardinality(Pending) \in Nat
  BY <1>1, FS_CardinalityType
<1> QED
  BY <1>3, <1>4, <1>5

\* None or one is not more than one.
LEMMA FewAside ==
  ASSUME Cardinality(Pending) \in {0, 1}
  PROVE  ~(Cardinality(Pending) > 1)
  OBVIOUS

\* Unless a cleanup failed, a start is never refused for a second directory.
LEMMA NoCollision ==
  ASSUME Inv, caveat \cap {"not undone", "not deleted"} = {}
  PROVE  ~(Cardinality(Pending) > 1) /\ (Pending # {} => ~Present(place))
<1>1. CASE Pending = {}
  <2>1. Cardinality(Pending) = 0
    BY <1>1, FS_EmptySet
  <2>2. ~(Cardinality(Pending) > 1)
    BY <2>1, FewAside
  <2> QED
    BY <1>1, <2>2, Zenon
<1>2. CASE Pending # {}
  <2>1. PICK t : t \in Pending
    BY <1>2
  <2>2. Pending = {t} /\ place = "absent"
    BY <2>1 DEF Inv, OneAside
  <2>3. Cardinality(Pending) = 1
    BY <2>2, FS_Singleton
  <2>4. ~(Cardinality(Pending) > 1)
    BY <2>3, FewAside
  <2> QED
    BY <2>2, <2>4, Zenon DEF Present
<1> QED
  BY <1>1, <1>2

\* An install finds an exact package, refuses a wrong one or copies the archive.
LEMMA InstallInv ==
  ASSUME Inv, Install
  PROVE  Inv'
<1>0. /\ \A s : Go(s) => NextOp(op.kind, s, op.note)
      /\ Finish => NextOp("none", "none", "none")
  BY OpAfter DEF Inv, OpShape
<1>1. Typed'
  BY DEF Inv, Typed, Install, files, rows, NoFault, RowStates, Installed, Bytes
<1>2. OpShape'
  BY <1>0 DEF Inv, OpShape, Install, NextOp, At, files, rows, NoFault,
     Deleting, StepsOf, Kinds, Idle
<1>3. OpRows'
  BY <1>0 DEF Inv, OpRows, Install, NextOp, At, files, rows, NoFault, Deleting,
     OpShape, Idle, Installed
<1>4. OpBytes'
  BY <1>0 DEF Inv, OpBytes, Install, NextOp, At, files, rows, NoFault, OpShape,
     Idle, Present, Bytes, Typed
<1>5. OneAside'
  BY <1>0, StepsHaveKinds, NoneAside DEF Inv, OneAside, Install, NextOp, At,
     files, rows, NoFault, Pending, Owner, Deleting, Present, OpShape, Idle,
     Typed, StepKinds
<1>6. Somewhere'
  BY <1>0, StepsHaveKinds DEF Inv, Somewhere, Install, NextOp, At, files, rows,
     NoFault, StepKinds, OpShape, Idle, OpRows, OpBytes, Installed, Typed,
     Bytes, Present, Deleting
<1>7. Undamaged'
  BY <1>0, StepsHaveKinds DEF Inv, Undamaged, Install, NextOp, At, files, rows,
     NoFault, StepKinds, OpShape, Idle, OpRows, OpBytes, Installed, Typed,
     Bytes, Present, Deleting
<1> QED
  BY <1>1, <1>2, <1>3, <1>4, <1>5, <1>6, <1>7 DEF Inv

\* The verified copy becomes the package: nothing is aside then.
LEMMA PublishPackageInv ==
  ASSUME Inv, PublishPackage
  PROVE  Inv'
<1>0. \A s : Go(s) => NextOp(op.kind, s, op.note)
  BY OpAfter DEF Inv, OpShape
<1>1. Typed'
  BY DEF Inv, Typed, PublishPackage, rows, NoFault, RowStates, Installed, Bytes
<1>2. OpShape'
  BY <1>0 DEF Inv, OpShape, PublishPackage, NextOp, At, files, rows, NoFault,
     Deleting, StepsOf, Kinds, Idle
<1>3. OpRows'
  BY <1>0 DEF Inv, OpRows, PublishPackage, NextOp, At, files, rows, NoFault,
     Deleting, OpShape, Idle, Installed
<1>4. OpBytes'
  BY <1>0 DEF Inv, OpBytes, PublishPackage, NextOp, At, files, rows, NoFault,
     OpShape, Idle, Present, Bytes, Typed
<1>5. OneAside'
  BY <1>0, StepsHaveKinds, NoneAside DEF Inv, OneAside, PublishPackage, NextOp,
     At, files, rows, NoFault, Pending, Owner, Deleting, Present, OpShape,
     Idle, Typed, StepKinds
<1>6. Somewhere'
  BY <1>0, StepsHaveKinds DEF Inv, Somewhere, PublishPackage, NextOp, At,
     files, rows, NoFault, StepKinds, OpShape, Idle, OpRows, OpBytes,
     Installed, Typed, Bytes, Present, Deleting
<1>7. Undamaged'
  BY <1>0, StepsHaveKinds DEF Inv, Undamaged, PublishPackage, NextOp, At,
     files, rows, NoFault, StepKinds, OpShape, Idle, OpRows, OpBytes,
     Installed, Typed, Bytes, Present, Deleting
<1> QED
  BY <1>1, <1>2, <1>3, <1>4, <1>5, <1>6, <1>7 DEF Inv

\* What was published is verified before the rows say so.
LEMMA CheckPublishedInv ==
  ASSUME Inv, CheckPublished
  PROVE  Inv'
<1>0. /\ \A s : Go(s) => NextOp(op.kind, s, op.note)
      /\ Finish => NextOp("none", "none", "none")
  BY OpAfter DEF Inv, OpShape
<1>1. Typed'
  BY DEF Inv, Typed, CheckPublished, files, rows, NoFault, RowStates,
     Installed, Bytes
<1>2. OpShape'
  BY <1>0 DEF Inv, OpShape, CheckPublished, NextOp, At, files, rows, NoFault,
     Deleting, StepsOf, Kinds, Idle
<1>3. OpRows'
  BY <1>0 DEF Inv, OpRows, CheckPublished, NextOp, At, files, rows, NoFault,
     Deleting, OpShape, Idle, Installed
<1>4. OpBytes'
  BY <1>0 DEF Inv, OpBytes, CheckPublished, NextOp, At, files, rows, NoFault,
     OpShape, Idle, Present, Bytes, Typed
<1>5. OneAside'
  BY <1>0, StepsHaveKinds, NoneAside DEF Inv, OneAside, CheckPublished, NextOp,
     At, files, rows, NoFault, Pending, Owner, Deleting, Present, OpShape,
     Idle, Typed, StepKinds
<1>6. Somewhere'
  BY <1>0, StepsHaveKinds DEF Inv, Somewhere, CheckPublished, NextOp, At,
     files, rows, NoFault, StepKinds, OpShape, Idle, OpRows, OpBytes,
     Installed, Typed, Bytes, Present, Deleting
<1>7. Undamaged'
  BY <1>0, StepsHaveKinds DEF Inv, Undamaged, CheckPublished, NextOp, At,
     files, rows, NoFault, StepKinds, OpShape, Idle, OpRows, OpBytes,
     Installed, Typed, Bytes, Present, Deleting
<1> QED
  BY <1>1, <1>2, <1>3, <1>4, <1>5, <1>6, <1>7 DEF Inv

\* A repair sets the package aside, so its bytes are in the spare directory.
LEMMA SetAsideInv ==
  ASSUME Inv, SetAside
  PROVE  Inv'
<1>0. /\ \A s : Go(s) => NextOp(op.kind, s, op.note)
      /\ Finish => NextOp("none", "none", "none")
  BY OpAfter DEF Inv, OpShape
<1>1. Typed'
  BY DEF Inv, Typed, SetAside, files, rows, NoFault, RowStates, Installed,
     Bytes
<1>2. OpShape'
  BY <1>0 DEF Inv, OpShape, SetAside, NextOp, At, files, rows, NoFault,
     Deleting, StepsOf, Kinds, Idle
<1>3. OpRows'
  BY <1>0 DEF Inv, OpRows, SetAside, NextOp, At, files, rows, NoFault,
     Deleting, OpShape, Idle, Installed
<1>4. OpBytes'
  BY <1>0 DEF Inv, OpBytes, SetAside, NextOp, At, files, rows, NoFault,
     OpShape, Idle, Present, Bytes, Typed
<1>5. OneAside'
  BY <1>0, StepsHaveKinds, NoneAside DEF Inv, OneAside, SetAside, NextOp, At,
     files, rows, NoFault, Pending, Owner, Deleting, Present, OpShape, Idle,
     Typed, StepKinds
<1>6. Somewhere'
  BY <1>0, StepsHaveKinds DEF Inv, Somewhere, SetAside, NextOp, At, files,
     rows, NoFault, StepKinds, OpShape, Idle, OpRows, OpBytes, Installed,
     Typed, Bytes, Present, Deleting
<1>7. Undamaged'
  BY <1>0, StepsHaveKinds DEF Inv, Undamaged, SetAside, NextOp, At, files,
     rows, NoFault, StepKinds, OpShape, Idle, OpRows, OpBytes, Installed,
     Typed, Bytes, Present, Deleting
<1> QED
  BY <1>1, <1>2, <1>3, <1>4, <1>5, <1>6, <1>7 DEF Inv

\* The copy takes the place of the package that was set aside.
LEMMA SwapInv ==
  ASSUME Inv, Swap
  PROVE  Inv'
<1>0. \A s : Go(s) => NextOp(op.kind, s, op.note)
  BY OpAfter DEF Inv, OpShape
<1>1. Typed'
  BY DEF Inv, Typed, Swap, rows, NoFault, RowStates, Installed, Bytes
<1>2. OpShape'
  BY <1>0 DEF Inv, OpShape, Swap, NextOp, At, files, rows, NoFault, Deleting,
     StepsOf, Kinds, Idle
<1>3. OpRows'
  BY <1>0 DEF Inv, OpRows, Swap, NextOp, At, files, rows, NoFault, Deleting,
     OpShape, Idle, Installed
<1>4. OpBytes'
  BY <1>0 DEF Inv, OpBytes, Swap, NextOp, At, files, rows, NoFault, OpShape,
     Idle, Present, Bytes, Typed
<1>5. OneAside'
  BY <1>0, StepsHaveKinds, NoneAside DEF Inv, OneAside, Swap, NextOp, At,
     files, rows, NoFault, Pending, Owner, Deleting, Present, OpShape, Idle,
     Typed, StepKinds
<1>6. Somewhere'
  BY <1>0, StepsHaveKinds DEF Inv, Somewhere, Swap, NextOp, At, files, rows,
     NoFault, StepKinds, OpShape, Idle, OpRows, OpBytes, Installed, Typed,
     Bytes, Present, Deleting
<1>7. Undamaged'
  BY <1>0, StepsHaveKinds DEF Inv, Undamaged, Swap, NextOp, At, files, rows,
     NoFault, StepKinds, OpShape, Idle, OpRows, OpBytes, Installed, Typed,
     Bytes, Present, Deleting
<1> QED
  BY <1>1, <1>2, <1>3, <1>4, <1>5, <1>6, <1>7 DEF Inv

\* The copy is not moved: the bytes are put back or stay in a leftover.
LEMMA SwapFailsInv ==
  ASSUME Inv, SwapFails
  PROVE  Inv'
<1>0. Finish => NextOp("none", "none", "none")
  BY OpAfter DEF Inv, OpShape
<1>1. Typed'
  <2>1. faults' \in 0 .. MaxFaults
    BY FaultTyped DEF SwapFails
  <2>2. caveat' \subseteq Caveats
    BY DEF Inv, Typed, SwapFails, Caveats
  <2>3. leftover' \in BOOLEAN
    BY DEF Inv, Typed, SwapFails, files
  <2> QED
    BY <2>1, <2>2, <2>3 DEF Inv, Typed, SwapFails, files, rows, Bytes, RowStates, Installed
<1>2. OpShape'
  BY <1>0 DEF Inv, OpShape, SwapFails, NextOp, At, files, rows, Deleting,
     StepsOf, Kinds, Idle, Fault
<1>3. OpRows'
  BY <1>0 DEF Inv, OpRows, SwapFails, NextOp, At, files, rows, Deleting,
     OpShape, Idle, Installed, Fault
<1>4. OpBytes'
  BY <1>0 DEF Inv, OpBytes, SwapFails, NextOp, At, files, rows, OpShape, Idle,
     Present, Bytes, Typed, Fault
<1>5. OneAside'
  BY <1>0, StepsHaveKinds, NoneAside DEF Inv, OneAside, SwapFails, NextOp, At,
     files, rows, Pending, Owner, Deleting, Present, OpShape, Idle, Typed,
     StepKinds, Fault
<1>6. Somewhere'
  <2>1. CASE place' = spare /\ leftover' = leftover
    BY <2>1 DEF Inv, Somewhere, OpBytes, Present, SwapFails, Installed, rows
  <2>2. CASE leftover' = (leftover \/ spare = "exact") /\ place' = place
    <3>1. leftover \/ spare = "exact" => leftover'
      BY <2>2
    <3> QED
      BY <2>2, <3>1 DEF Inv, Somewhere, SwapFails, Installed, rows
  <2> QED
    BY <2>1, <2>2 DEF SwapFails
<1>7. Undamaged'
  BY <1>0, StepsHaveKinds DEF Inv, Undamaged, SwapFails, NextOp, At, files,
     rows, StepKinds, OpShape, Idle, OpRows, OpBytes, Installed, Typed, Bytes,
     Present, Deleting, Fault
<1> QED
  BY <1>1, <1>2, <1>3, <1>4, <1>5, <1>6, <1>7 DEF Inv

\* The spare directory goes only when the copy in place is exact.
LEMMA DropSpareInv ==
  ASSUME Inv, DropSpare
  PROVE  Inv'
<1>0. /\ \A s : Go(s) => NextOp(op.kind, s, op.note)
      /\ Finish => NextOp("none", "none", "none")
  BY OpAfter DEF Inv, OpShape
<1>1. Typed'
  BY DEF Inv, Typed, DropSpare, rows, NoFault, RowStates, Installed, Bytes
<1>2. OpShape'
  BY <1>0 DEF Inv, OpShape, DropSpare, NextOp, At, files, rows, NoFault,
     Deleting, StepsOf, Kinds, Idle
<1>3. OpRows'
  BY <1>0 DEF Inv, OpRows, DropSpare, NextOp, At, files, rows, NoFault,
     Deleting, OpShape, Idle, Installed
<1>4. OpBytes'
  BY <1>0 DEF Inv, OpBytes, DropSpare, NextOp, At, files, rows, NoFault,
     OpShape, Idle, Present, Bytes, Typed
<1>5. OneAside'
  BY <1>0, StepsHaveKinds, NoneAside DEF Inv, OneAside, DropSpare, NextOp, At,
     files, rows, NoFault, Pending, Owner, Deleting, Present, OpShape, Idle,
     Typed, StepKinds
<1>6. Somewhere'
  BY <1>0, StepsHaveKinds DEF Inv, Somewhere, DropSpare, NextOp, At, files,
     rows, NoFault, StepKinds, OpShape, Idle, OpRows, OpBytes, Installed,
     Typed, Bytes, Present, Deleting
<1>7. Undamaged'
  BY <1>0, StepsHaveKinds DEF Inv, Undamaged, DropSpare, NextOp, At, files,
     rows, NoFault, StepKinds, OpShape, Idle, OpRows, OpBytes, Installed,
     Typed, Bytes, Present, Deleting
<1> QED
  BY <1>1, <1>2, <1>3, <1>4, <1>5, <1>6, <1>7 DEF Inv

\* A failed delete ends the repair; the copy in place is exact.
LEMMA DropFailsInv ==
  ASSUME Inv, DropFails
  PROVE  Inv'
<1>0. Finish => NextOp("none", "none", "none")
  BY OpAfter DEF Inv, OpShape
<1>1. Typed'
  <2>1. spare' \in Bytes
    BY DEF DropFails, Bytes
  <2> QED
    BY <2>1, FaultTyped DEF Inv, Typed, DropFails, rows
<1>2. OpShape'
  BY <1>0 DEF Inv, OpShape, DropFails, NextOp, At, files, rows, Deleting,
     StepsOf, Kinds, Idle, Fault
<1>3. OpRows'
  BY <1>0 DEF Inv, OpRows, DropFails, NextOp, At, files, rows, Deleting,
     OpShape, Idle, Installed, Fault
<1>4. OpBytes'
  BY <1>0 DEF Inv, OpBytes, DropFails, NextOp, At, files, rows, OpShape, Idle,
     Present, Bytes, Typed, Fault
<1>5. OneAside'
  BY <1>0, StepsHaveKinds, NoneAside DEF Inv, OneAside, DropFails, NextOp, At,
     files, rows, Pending, Owner, Deleting, Present, OpShape, Idle, Typed,
     StepKinds, Fault
<1>6. Somewhere'
  BY <1>0, StepsHaveKinds DEF Inv, Somewhere, DropFails, NextOp, At, files,
     rows, StepKinds, OpShape, Idle, OpRows, OpBytes, Installed, Typed, Bytes,
     Present, Deleting, Fault
<1>7. Undamaged'
  BY <1>0, StepsHaveKinds DEF Inv, Undamaged, DropFails, NextOp, At, files,
     rows, StepKinds, OpShape, Idle, OpRows, OpBytes, Installed, Typed, Bytes,
     Present, Deleting, Fault
<1> QED
  BY <1>1, <1>2, <1>3, <1>4, <1>5, <1>6, <1>7 DEF Inv

\* A verification only reads.
LEMMA VerifyPackageInv ==
  ASSUME Inv, VerifyPackage
  PROVE  Inv'
<1>0. \A n, s : Keep(n, s) => NextOp(op.kind, s, n)
  BY OpAfter DEF Inv, OpShape
<1>1. Typed'
  BY DEF Inv, Typed, VerifyPackage, files, rows, NoFault, RowStates, Installed,
     Bytes
<1>2. OpShape'
  BY <1>0 DEF Inv, OpShape, VerifyPackage, NextOp, At, files, rows, NoFault,
     Deleting, StepsOf, Kinds, Idle
<1>3. OpRows'
  BY <1>0 DEF Inv, OpRows, VerifyPackage, NextOp, At, files, rows, NoFault,
     Deleting, OpShape, Idle, Installed
<1>4. OpBytes'
  BY <1>0 DEF Inv, OpBytes, VerifyPackage, NextOp, At, files, rows, NoFault,
     OpShape, Idle, Present, Bytes, Typed
<1>5. OneAside'
  BY <1>0, StepsHaveKinds, NoneAside DEF Inv, OneAside, VerifyPackage, NextOp,
     At, files, rows, NoFault, Pending, Owner, Deleting, Present, OpShape,
     Idle, Typed, StepKinds
<1>6. Somewhere'
  BY <1>0, StepsHaveKinds DEF Inv, Somewhere, VerifyPackage, NextOp, At, files,
     rows, NoFault, StepKinds, OpShape, Idle, OpRows, OpBytes, Installed,
     Typed, Bytes, Present, Deleting
<1>7. Undamaged'
  BY <1>0, StepsHaveKinds DEF Inv, Undamaged, VerifyPackage, NextOp, At, files,
     rows, NoFault, StepKinds, OpShape, Idle, OpRows, OpBytes, Installed,
     Typed, Bytes, Present, Deleting
<1> QED
  BY <1>1, <1>2, <1>3, <1>4, <1>5, <1>6, <1>7 DEF Inv

\* The marker of an exact package.
LEMMA ActivateInv ==
  ASSUME Inv, Activate
  PROVE  Inv'
<1>0. /\ \A n, s : Keep(n, s) => NextOp(op.kind, s, n)
      /\ Finish => NextOp("none", "none", "none")
  BY OpAfter DEF Inv, OpShape
<1>1. Typed'
  BY DEF Inv, Typed, Activate, rows, NoFault
<1>2. OpShape'
  BY <1>0 DEF Inv, OpShape, Activate, NextOp, At, files, rows, NoFault,
     Deleting, StepsOf, Kinds, Idle
<1>3. OpRows'
  BY <1>0 DEF Inv, OpRows, Activate, NextOp, At, files, rows, NoFault,
     Deleting, OpShape, Idle, Installed
<1>4. OpBytes'
  BY <1>0 DEF Inv, OpBytes, Activate, NextOp, At, files, rows, NoFault,
     OpShape, Idle, Present, Bytes, Typed
<1>5. OneAside'
  BY <1>0, StepsHaveKinds, NoneAside DEF Inv, OneAside, Activate, NextOp, At,
     files, rows, NoFault, Pending, Owner, Deleting, Present, OpShape, Idle,
     Typed, StepKinds
<1>6. Somewhere'
  BY <1>0, StepsHaveKinds DEF Inv, Somewhere, Activate, NextOp, At, files,
     rows, NoFault, StepKinds, OpShape, Idle, OpRows, OpBytes, Installed,
     Typed, Bytes, Present, Deleting
<1>7. Undamaged'
  BY <1>0, StepsHaveKinds DEF Inv, Undamaged, Activate, NextOp, At, files,
     rows, NoFault, StepKinds, OpShape, Idle, OpRows, OpBytes, Installed,
     Typed, Bytes, Present, Deleting
<1> QED
  BY <1>1, <1>2, <1>3, <1>4, <1>5, <1>6, <1>7 DEF Inv

\* The marker goes before the row changes.
LEMMA DeactivateInv ==
  ASSUME Inv, Deactivate
  PROVE  Inv'
<1>0. \A n, s : Keep(n, s) => NextOp(op.kind, s, n)
  BY OpAfter DEF Inv, OpShape
<1>1. Typed'
  BY DEF Inv, Typed, Deactivate, rows, NoFault
<1>2. OpShape'
  BY <1>0 DEF Inv, OpShape, Deactivate, NextOp, At, files, rows, NoFault,
     Deleting, StepsOf, Kinds, Idle
<1>3. OpRows'
  BY <1>0 DEF Inv, OpRows, Deactivate, NextOp, At, files, rows, NoFault,
     Deleting, OpShape, Idle, Installed
<1>4. OpBytes'
  BY <1>0 DEF Inv, OpBytes, Deactivate, NextOp, At, files, rows, NoFault,
     OpShape, Idle, Present, Bytes, Typed
<1>5. OneAside'
  BY <1>0, StepsHaveKinds, NoneAside DEF Inv, OneAside, Deactivate, NextOp, At,
     files, rows, NoFault, Pending, Owner, Deleting, Present, OpShape, Idle,
     Typed, StepKinds
<1>6. Somewhere'
  BY <1>0, StepsHaveKinds DEF Inv, Somewhere, Deactivate, NextOp, At, files,
     rows, NoFault, StepKinds, OpShape, Idle, OpRows, OpBytes, Installed,
     Typed, Bytes, Present, Deleting
<1>7. Undamaged'
  BY <1>0, StepsHaveKinds DEF Inv, Undamaged, Deactivate, NextOp, At, files,
     rows, NoFault, StepKinds, OpShape, Idle, OpRows, OpBytes, Installed,
     Typed, Bytes, Present, Deleting
<1> QED
  BY <1>1, <1>2, <1>3, <1>4, <1>5, <1>6, <1>7 DEF Inv

\* Setting the package aside: there was nothing aside, unless a cleanup failed.
LEMMA StageInv ==
  ASSUME Inv, StageRemove, At({"remove"}, "files") \/ At({"install"}, "undo"),
         marker' \in BOOLEAN, UNCHANGED <<service, refused, spare, leftover, rows, faults, caveat>>
  PROVE  Inv'
<1> PICK t \in Tomb :
      /\ tomb[t] = "absent" /\ tomb' = [tomb EXCEPT ![t] = place] /\ place' = "absent"
      /\ NextOp(op.kind, IF op.kind = "remove" THEN "persist" ELSE "delete", t)
  BY StageShape
<1>1. Typed'
  BY DEF Inv, Typed, rows
<1>2. OpShape'
  BY DEF Inv, OpShape, At, NextOp, StepsOf, Kinds, Deleting, Idle
<1>3. OpRows'
  BY DEF Inv, OpRows, At, NextOp, Deleting, rows
<1>4. OpBytes'
  BY TombAssumption DEF Inv, OpBytes, At, NextOp, Present
<1>5. OneAside'
  <2>1. caveat \cap {"not undone", "not deleted"} = {} => \A u \in Tomb : tomb[u] = "absent"
    BY NoneAside, StepsHaveKinds DEF Inv, StepKinds, At, Owner, Deleting
  <2> QED
    BY <2>1 DEF Inv, OneAside, Pending, Present, Owner, At, NextOp, Deleting, Typed
<1>6. Somewhere'
  BY DEF Inv, Somewhere, Typed, rows
<1>7. Undamaged'
  BY DEF Inv, Undamaged, Typed, At, NextOp, OpRows, Installed, rows
<1> QED
  BY <1>1, <1>2, <1>3, <1>4, <1>5, <1>6, <1>7 DEF Inv

\* A removal: refused, with nothing to set aside, or setting the package aside.
LEMMA RemoveInv ==
  ASSUME Inv, Remove
  PROVE  Inv'
<1>0. /\ \A n, s : Keep(n, s) => NextOp(op.kind, s, n)
      /\ Finish => NextOp("none", "none", "none")
  BY OpAfter DEF Inv, OpShape
<1>1. CASE StageRemove /\ UNCHANGED <<spare, leftover, marker>>
  BY <1>1, StageInv DEF Remove, NoFault, Inv, Typed, rows
<1>2. CASE UNCHANGED files /\ (Finish \/ (Keep("nothing", "persist") /\ ~Present(place)))
  <2>1. Typed'
    BY <1>2 DEF Inv, Typed, Remove, NoFault, files, rows
  <2>2. OpShape'
    BY <1>0, <1>2 DEF Inv, OpShape, Remove, At, NextOp, StepsOf, Kinds, Deleting, Idle
  <2>3. OpRows'
    BY <1>0, <1>2 DEF Inv, OpRows, Remove, At, NextOp, Deleting, rows
  <2>4. OpBytes'
    BY <1>0, <1>2 DEF Inv, OpBytes, Remove, At, NextOp, Present, files, NoFault
  <2>5. OneAside'
    <3>1. caveat \cap {"not undone", "not deleted"} = {} => Pending = {}
      BY NoneAside, StepsHaveKinds DEF Inv, StepKinds, Remove, At, Owner, Deleting
    <3> QED
      BY <1>2, <3>1 DEF Inv, OneAside, Pending, Remove, files, NoFault
  <2>6. Somewhere' /\ Undamaged'
    BY <1>2 DEF Inv, Somewhere, Undamaged, Remove, At, files, rows, NoFault, OpRows, Deleting
  <2> QED
    BY <2>1, <2>2, <2>3, <2>4, <2>5, <2>6 DEF Inv
<1>3. \/ StageRemove /\ UNCHANGED <<spare, leftover, marker>>
      \/ UNCHANGED files /\ (Finish \/ (Keep("nothing", "persist") /\ ~Present(place)))
  BY Zenon DEF Remove
<1> QED
  BY <1>1, <1>2, <1>3

\* The transaction: the rows list a package only with its bytes in place.
LEMMA PersistInv ==
  ASSUME Inv, Persist
  PROVE  Inv'
<1>0. /\ \A s : Go(s) => NextOp(op.kind, s, op.note)
      /\ Finish => NextOp("none", "none", "none")
  BY OpAfter DEF Inv, OpShape
<1>1. Typed'
  BY RowAfter DEF Inv, Typed, Persist, Kinds, NoFault, files, RowStates,
     Installed
<1>2. OpShape'
  BY <1>0 DEF Inv, OpShape, Persist, NextOp, At, files, NoFault, Deleting,
     StepsOf, Kinds, Idle, NextRow
<1>3. OpRows'
  <2>1. op'.kind # "none" => Deleting' /\ op'.kind = "remove" /\ row' = "removed"
    BY <1>0, RowAfter DEF Persist, NextOp, Deleting
  <2>2. work' => row' # "removed"
    BY RowAfter DEF Inv, OpRows, Persist, Kinds, Deleting
  <2> QED
    BY <2>1, <2>2 DEF OpRows
<1>4. OpBytes'
  BY <1>0 DEF Inv, OpBytes, Persist, NextOp, At, files, NoFault, OpShape, Idle,
     Present, Bytes, Typed, NextRow
<1>5. OneAside'
  BY <1>0, StepsHaveKinds, NoneAside, TombAssumption DEF Inv, OneAside,
     Persist, NextOp, At, files, NoFault, Pending, Owner, Deleting, Present,
     OpShape, Idle, Typed, StepKinds, NextRow
<1>6. Somewhere'
  BY <1>0, RowAfter DEF Inv, Somewhere, OpRows, OpBytes, OpShape, At, Persist,
     Kinds, NoFault, files, Installed, Deleting
<1>7. Undamaged'
  <2>1. caveat = {} /\ op.kind # "remove" => \A t \in Tomb : tomb[t] = "absent"
    BY NoneAside, StepsHaveKinds DEF Inv, StepKinds, Persist, Owner, Deleting
  <2>2. CASE op.kind = "remove"
    BY <2>2, RowAfter DEF Inv, Undamaged, Persist, NoFault, files, Installed
  <2>3. CASE op.kind \in {"install", "repair", "activate"}
    BY <2>1, <2>3, RowAfter DEF Inv, Undamaged, OpBytes, At, Persist, NoFault, files
  <2>4. CASE op.kind = "verify"
    BY <2>1, <2>4, RowAfter DEF Inv, Undamaged, OpBytes, OpShape, At, Persist, NoFault, files, Installed
  <2>5. CASE op.kind = "deactivate"
    BY <2>1, <2>5, RowAfter DEF Inv, Undamaged, OpRows, Persist, NoFault, files, Installed
  <2> QED
    BY <2>2, <2>3, <2>4, <2>5, RowAfter DEF Kinds
<1> QED
  BY <1>1, <1>2, <1>3, <1>4, <1>5, <1>6, <1>7 DEF Inv

\* A failed transaction leaves the rows, and the undo remembers what is aside.
LEMMA PersistFailsInv ==
  ASSUME Inv, PersistFails
  PROVE  Inv'
<1>0. /\ \A s : Go(s) => NextOp(op.kind, s, op.note)
      /\ Finish => NextOp("none", "none", "none")
  BY OpAfter DEF Inv, OpShape
<1>1. Typed'
  <2>1. faults' \in 0 .. MaxFaults
    BY FaultTyped DEF PersistFails
  <2>2. caveat' \subseteq Caveats
    BY DEF Inv, Typed, PersistFails, Caveats, Fault
  <2>3. leftover' \in BOOLEAN
    BY DEF Inv, Typed, PersistFails, files
  <2> QED
    BY <2>1, <2>2, <2>3 DEF Inv, Typed, PersistFails, files, rows, Bytes, RowStates, Installed
<1>2. OpShape'
  BY <1>0 DEF Inv, OpShape, PersistFails, NextOp, At, files, rows, Deleting,
     StepsOf, Kinds, Idle, Fault
<1>3. OpRows'
  BY <1>0 DEF Inv, OpRows, PersistFails, NextOp, At, files, rows, Deleting,
     OpShape, Idle, Installed, Fault
<1>4. OpBytes'
  BY <1>0 DEF Inv, OpBytes, PersistFails, NextOp, At, files, rows, OpShape,
     Idle, Present, Bytes, Typed, Fault
<1>5. OneAside'
  <2>1. CASE op.kind \in {"repair", "verify"} \/ op.note = "nothing"
    <3>1. \A t \in Tomb : ~Owner(t)
      BY <2>1, TombAssumption DEF PersistFails, Owner, Deleting
    <3>2. service = "up"
      BY StepsHaveKinds DEF Inv, StepKinds, PersistFails
    <3> QED
      BY <3>1, <3>2, NoneAside DEF Inv, OneAside, Pending, PersistFails, files
  <2>2. CASE ~(op.kind \in {"repair", "verify"} \/ op.note = "nothing")
    <3>1. NextOp(op.kind, "undo", op.note)
      BY <1>0, <2>2 DEF PersistFails
    <3>2. \A t \in Tomb : Owner(t) => Owner(t)'
      BY <3>1 DEF Owner, NextOp, PersistFails, Deleting
    <3> QED
      BY <3>2 DEF Inv, OneAside, Pending, PersistFails, files
  <2> QED
    BY <2>1, <2>2
<1>6. Somewhere'
  BY <1>0, StepsHaveKinds DEF Inv, Somewhere, PersistFails, NextOp, At, files,
     rows, StepKinds, OpShape, Idle, OpRows, OpBytes, Installed, Typed, Bytes,
     Present, Deleting, Fault
<1>7. Undamaged'
  BY <1>0, StepsHaveKinds DEF Inv, Undamaged, PersistFails, NextOp, At, files,
     rows, StepKinds, OpShape, Idle, OpRows, OpBytes, Installed, Typed, Bytes,
     Present, Deleting, Fault
<1> QED
  BY <1>1, <1>2, <1>3, <1>4, <1>5, <1>6, <1>7 DEF Inv

\* The undo of a removal puts back the directory it set aside.
LEMMA PutBackInv ==
  ASSUME Inv, PutBack
  PROVE  Inv'
<1>0. Finish => NextOp("none", "none", "none")
  BY OpAfter DEF Inv, OpShape
<1>1. Typed'
  <2>1. op.note \in Tomb /\ "absent" \in Bytes
    BY DEF Inv, OpShape, At, Deleting, PutBack, Bytes
  <2>2. place' \in Bytes /\ tomb' \in [Tomb -> Bytes]
    BY <2>1 DEF Inv, Typed, PutBack
  <2> QED
    BY <2>2 DEF Inv, Typed, PutBack, rows, NoFault
<1>2. OpShape'
  BY <1>0 DEF Inv, OpShape, PutBack, NextOp, At, files, rows, NoFault,
     Deleting, StepsOf, Kinds, Idle
<1>3. OpRows'
  BY <1>0 DEF Inv, OpRows, PutBack, NextOp, At, files, rows, NoFault, Deleting,
     OpShape, Idle, Installed
<1>4. OpBytes'
  BY <1>0 DEF Inv, OpBytes, PutBack, NextOp, At, files, rows, NoFault, OpShape,
     Idle, Present, Bytes, Typed
<1>5. OneAside'
  BY <1>0, StepsHaveKinds, NoneAside DEF Inv, OneAside, PutBack, NextOp, At,
     files, rows, NoFault, Pending, Owner, Deleting, Present, OpShape, Idle,
     Typed, StepKinds
<1>6. Somewhere'
  BY <1>0, StepsHaveKinds DEF Inv, Somewhere, PutBack, NextOp, At, files, rows,
     NoFault, StepKinds, OpShape, Idle, OpRows, OpBytes, Installed, Typed,
     Bytes, Present, Deleting
<1>7. Undamaged'
  BY <1>0, StepsHaveKinds DEF Inv, Undamaged, PutBack, NextOp, At, files, rows,
     NoFault, StepKinds, OpShape, Idle, OpRows, OpBytes, Installed, Typed,
     Bytes, Present, Deleting
<1> QED
  BY <1>1, <1>2, <1>3, <1>4, <1>5, <1>6, <1>7 DEF Inv

\* The undo of an activation or deactivation changes the marker only.
LEMMA RestoreMarkerInv ==
  ASSUME Inv, RestoreMarker
  PROVE  Inv'
<1>0. Finish => NextOp("none", "none", "none")
  BY OpAfter DEF Inv, OpShape
<1>1. Typed'
  BY DEF Inv, Typed, RestoreMarker, rows, NoFault, RowStates, Installed, Bytes
<1>2. OpShape'
  BY <1>0 DEF Inv, OpShape, RestoreMarker, NextOp, At, files, rows, NoFault,
     Deleting, StepsOf, Kinds, Idle
<1>3. OpRows'
  BY <1>0 DEF Inv, OpRows, RestoreMarker, NextOp, At, files, rows, NoFault,
     Deleting, OpShape, Idle, Installed
<1>4. OpBytes'
  BY <1>0 DEF Inv, OpBytes, RestoreMarker, NextOp, At, files, rows, NoFault,
     OpShape, Idle, Present, Bytes, Typed
<1>5. OneAside'
  BY <1>0, StepsHaveKinds, NoneAside DEF Inv, OneAside, RestoreMarker, NextOp,
     At, files, rows, NoFault, Pending, Owner, Deleting, Present, OpShape,
     Idle, Typed, StepKinds
<1>6. Somewhere'
  BY <1>0, StepsHaveKinds DEF Inv, Somewhere, RestoreMarker, NextOp, At, files,
     rows, NoFault, StepKinds, OpShape, Idle, OpRows, OpBytes, Installed,
     Typed, Bytes, Present, Deleting
<1>7. Undamaged'
  BY <1>0, StepsHaveKinds DEF Inv, Undamaged, RestoreMarker, NextOp, At, files,
     rows, NoFault, StepKinds, OpShape, Idle, OpRows, OpBytes, Installed,
     Typed, Bytes, Present, Deleting
<1> QED
  BY <1>1, <1>2, <1>3, <1>4, <1>5, <1>6, <1>7 DEF Inv

\* The undo of an install sets the unlisted package aside.
LEMMA UndoInstallInv ==
  ASSUME Inv, UndoInstall
  PROVE  Inv'
<1>0. Finish => NextOp("none", "none", "none")
  BY OpAfter DEF Inv, OpShape
<1>1. CASE StageRemove
  BY <1>1, StageInv DEF UndoInstall, NoFault
<1>2. CASE Finish /\ UNCHANGED <<place, tomb>>
  <2>1. Typed'
    BY <1>2 DEF Inv, Typed, UndoInstall, NoFault, rows
  <2>2. OpShape' /\ OpRows' /\ OpBytes'
    BY <1>0, <1>2 DEF Inv, OpShape, OpRows, OpBytes, UndoInstall, At, NextOp, Deleting, Idle,
       Present, rows, NoFault
  <2>3. OneAside'
    <3>1. caveat \cap {"not undone", "not deleted"} = {} => Pending = {}
      BY NoneAside, StepsHaveKinds DEF Inv, StepKinds, UndoInstall, At, Owner, Deleting
    <3> QED
      BY <1>2, <3>1 DEF Inv, OneAside, Pending, UndoInstall, NoFault
  <2>4. Somewhere' /\ Undamaged'
    BY <1>2 DEF Inv, Somewhere, Undamaged, UndoInstall, At, rows, NoFault, OpRows
  <2> QED
    BY <2>1, <2>2, <2>3, <2>4 DEF Inv
<1> QED
  BY <1>1, <1>2 DEF UndoInstall

\* A failed undo of a removal is remembered in caveat.
LEMMA UndoFailsInv ==
  ASSUME Inv, UndoFails
  PROVE  Inv'
<1>0. Finish => NextOp("none", "none", "none")
  BY OpAfter DEF Inv, OpShape
<1>1. Typed'
  <2>1. faults' \in 0 .. MaxFaults
    BY FaultTyped DEF UndoFails
  <2>2. caveat' \subseteq Caveats
    BY DEF Inv, Typed, UndoFails, Caveats
  <2>3. leftover' \in BOOLEAN
    BY DEF Inv, Typed, UndoFails, files
  <2> QED
    BY <2>1, <2>2, <2>3 DEF Inv, Typed, UndoFails, files, rows
<1>2. OpShape'
  BY <1>0 DEF Inv, OpShape, UndoFails, NextOp, At, files, rows, Deleting,
     StepsOf, Kinds, Idle, Fault
<1>3. OpRows'
  BY <1>0 DEF Inv, OpRows, UndoFails, NextOp, At, files, rows, Deleting,
     OpShape, Idle, Installed, Fault
<1>4. OpBytes'
  BY <1>0 DEF Inv, OpBytes, UndoFails, NextOp, At, files, rows, OpShape, Idle,
     Present, Bytes, Typed, Fault
<1>5. OneAside'
  BY <1>0, StepsHaveKinds, NoneAside DEF Inv, OneAside, UndoFails, NextOp, At,
     files, rows, Pending, Owner, Deleting, Present, OpShape, Idle, Typed,
     StepKinds, Fault
<1>6. Somewhere'
  BY <1>0, StepsHaveKinds DEF Inv, Somewhere, UndoFails, NextOp, At, files,
     rows, StepKinds, OpShape, Idle, OpRows, OpBytes, Installed, Typed, Bytes,
     Present, Deleting, Fault
<1>7. Undamaged'
  BY <1>0, StepsHaveKinds DEF Inv, Undamaged, UndoFails, NextOp, At, files,
     rows, StepKinds, OpShape, Idle, OpRows, OpBytes, Installed, Typed, Bytes,
     Present, Deleting, Fault
<1> QED
  BY <1>1, <1>2, <1>3, <1>4, <1>5, <1>6, <1>7 DEF Inv

\* Only bytes that no row lists are deleted.
LEMMA BeginDeleteInv ==
  ASSUME Inv, BeginDelete
  PROVE  Inv'
<1>0. \A s : Go(s) => NextOp(op.kind, s, op.note)
  BY OpAfter DEF Inv, OpShape
<1>1. Typed'
  BY DEF Inv, Typed, BeginDelete, files, rows, NoFault, RowStates, Installed,
     Bytes, OpShape
<1>2. OpShape'
  BY <1>0 DEF Inv, OpShape, BeginDelete, NextOp, At, files, rows, NoFault,
     Deleting, StepsOf, Kinds, Idle
<1>3. OpRows'
  BY <1>0 DEF Inv, OpRows, BeginDelete, NextOp, At, files, rows, NoFault,
     Deleting, OpShape, Idle, Installed
<1>4. OpBytes'
  BY <1>0 DEF Inv, OpBytes, BeginDelete, NextOp, At, files, rows, NoFault,
     OpShape, Idle, Present, Bytes, Typed
<1>5. OneAside'
  BY <1>0, StepsHaveKinds, NoneAside DEF Inv, OneAside, BeginDelete, NextOp,
     At, files, rows, NoFault, Pending, Owner, Deleting, Present, OpShape,
     Idle, Typed, StepKinds
<1>6. Somewhere'
  BY <1>0, StepsHaveKinds DEF Inv, Somewhere, BeginDelete, NextOp, At, files,
     rows, NoFault, StepKinds, OpShape, Idle, OpRows, OpBytes, Installed,
     Typed, Bytes, Present, Deleting
<1>7. Undamaged'
  BY <1>0, StepsHaveKinds DEF Inv, Undamaged, BeginDelete, NextOp, At, files,
     rows, NoFault, StepKinds, OpShape, Idle, OpRows, OpBytes, Installed,
     Typed, Bytes, Present, Deleting
<1> QED
  BY <1>1, <1>2, <1>3, <1>4, <1>5, <1>6, <1>7 DEF Inv

\* The directory that was aside is gone, and it was the only one.
LEMMA DeleteInv ==
  ASSUME Inv, Delete
  PROVE  Inv'
<1>0. Finish => NextOp("none", "none", "none")
  BY OpAfter DEF Inv, OpShape
<1>1. Typed'
  <2>1. op.note \in Tomb /\ "absent" \in Bytes
    BY DEF Inv, OpShape, At, Deleting, Delete, Bytes
  <2>2. tomb' \in [Tomb -> Bytes]
    BY <2>1 DEF Inv, Typed, Delete
  <2> QED
    BY <2>2 DEF Inv, Typed, Delete, rows, NoFault
<1>2. OpShape'
  BY <1>0 DEF Inv, OpShape, Delete, NextOp, At, files, rows, NoFault, Deleting,
     StepsOf, Kinds, Idle
<1>3. OpRows'
  BY <1>0 DEF Inv, OpRows, Delete, NextOp, At, files, rows, NoFault, Deleting,
     OpShape, Idle, Installed
<1>4. OpBytes'
  BY <1>0 DEF Inv, OpBytes, Delete, NextOp, At, files, rows, NoFault, OpShape,
     Idle, Present, Bytes, Typed
<1>5. OneAside'
  BY <1>0, StepsHaveKinds, NoneAside DEF Inv, OneAside, Delete, NextOp, At,
     files, rows, NoFault, Pending, Owner, Deleting, Present, OpShape, Idle,
     Typed, StepKinds
<1>6. Somewhere'
  BY <1>0, StepsHaveKinds DEF Inv, Somewhere, Delete, NextOp, At, files, rows,
     NoFault, StepKinds, OpShape, Idle, OpRows, OpBytes, Installed, Typed,
     Bytes, Present, Deleting
<1>7. Undamaged'
  <2>1. ASSUME caveat = {}, NEW t \in Tomb, tomb[t] = "wrong"
        PROVE  t = op.note
    BY <2>1, StepsHaveKinds DEF Inv, OneAside, Pending, Present, Owner, StepKinds, Delete
  <2> QED
    BY <1>0, <2>1, StepsHaveKinds DEF Inv, Typed, OpShape, OpRows, Undamaged, Delete, StepKinds,
       Deleting, Installed, NextOp, NoFault, rows
<1> QED
  BY <1>1, <1>2, <1>3, <1>4, <1>5, <1>6, <1>7 DEF Inv

\* A failed delete is remembered in caveat.
LEMMA DeleteFailsInv ==
  ASSUME Inv, DeleteFails
  PROVE  Inv'
<1>0. Finish => NextOp("none", "none", "none")
  BY OpAfter DEF Inv, OpShape
<1>1. Typed'
  <2>1. faults' \in 0 .. MaxFaults
    BY FaultTyped DEF DeleteFails
  <2>2. caveat' \subseteq Caveats
    BY DEF Inv, Typed, DeleteFails, Caveats
  <2>3. leftover' \in BOOLEAN
    BY DEF Inv, Typed, DeleteFails, files
  <2> QED
    BY <2>1, <2>2, <2>3 DEF Inv, Typed, DeleteFails, files, rows
<1>2. OpShape'
  BY <1>0 DEF Inv, OpShape, DeleteFails, NextOp, At, files, rows, Deleting,
     StepsOf, Kinds, Idle, Fault
<1>3. OpRows'
  BY <1>0 DEF Inv, OpRows, DeleteFails, NextOp, At, files, rows, Deleting,
     OpShape, Idle, Installed, Fault
<1>4. OpBytes'
  BY <1>0 DEF Inv, OpBytes, DeleteFails, NextOp, At, files, rows, OpShape,
     Idle, Present, Bytes, Typed, Fault
<1>5. OneAside'
  BY <1>0, StepsHaveKinds, NoneAside DEF Inv, OneAside, DeleteFails, NextOp,
     At, files, rows, Pending, Owner, Deleting, Present, OpShape, Idle, Typed,
     StepKinds, Fault
<1>6. Somewhere'
  BY <1>0, StepsHaveKinds DEF Inv, Somewhere, DeleteFails, NextOp, At, files,
     rows, StepKinds, OpShape, Idle, OpRows, OpBytes, Installed, Typed, Bytes,
     Present, Deleting, Fault
<1>7. Undamaged'
  BY <1>0, StepsHaveKinds DEF Inv, Undamaged, DeleteFails, NextOp, At, files,
     rows, StepKinds, OpShape, Idle, OpRows, OpBytes, Installed, Typed, Bytes,
     Present, Deleting, Fault
<1> QED
  BY <1>1, <1>2, <1>3, <1>4, <1>5, <1>6, <1>7 DEF Inv

\* A start resolves the one directory aside by what the row says.
LEMMA StartInv ==
  ASSUME Inv, Start
  PROVE  Inv'
<1> UNCHANGED <<spare, leftover, marker, row, checked, work, op, faults, caveat>> /\ service = "down"
  BY DEF Start, rows, NoFault
<1>1. op = Idle
  BY DEF Inv, OpShape
<1>2. CASE UNCHANGED <<service, place, tomb>>
  <2>1. caveat \cap {"not undone", "not deleted"} = {} => refused' # "collision"
    BY NoCollision DEF Start
  <2>2. Typed'
    BY <1>2 DEF Inv, Typed, Start
  <2>3. OpShape' /\ OpRows' /\ OpBytes'
    BY <1>1, <1>2 DEF Inv, OpShape, OpRows, OpBytes, At, Deleting, Idle
  <2>4. OneAside'
    BY <1>2, <2>1 DEF Inv, OneAside, Pending
  <2>5. Somewhere' /\ Undamaged'
    BY <1>2 DEF Inv, Somewhere, Undamaged, At
  <2> QED
    BY <2>2, <2>3, <2>4, <2>5 DEF Inv
<1>3. CASE service' = "up"
  <2>1. /\ ~(Cardinality(Pending) > 1) /\ (Pending # {} => ~Present(place)) /\ refused' = "no"
        /\ tomb' = [t \in Tomb |-> "absent"]
        /\ \/ (row = "removed" \/ Pending = {}) /\ place' = place
           \/ row # "removed" /\ \E t \in Pending : place' = tomb[t]
    BY <1>3 DEF Start
  <2>2. \A t, u \in Pending : t = u
    BY <2>1, OneIsSame
  <2>3. Typed'
    BY <1>3, <2>1 DEF Inv, Typed, Pending, Bytes
  <2>4. OpShape' /\ OpRows' /\ OpBytes'
    BY <1>1, <1>3 DEF Inv, OpShape, OpRows, OpBytes, At, Deleting, Idle
  <2>5. OneAside'
    BY <2>1 DEF Pending, OneAside, Present
  <2>6. Somewhere'
    BY <2>1, <2>2 DEF Inv, Somewhere, Installed, Pending, Present, Typed
  <2>7. Undamaged'
    BY <1>1, <2>1, <2>2 DEF Inv, Undamaged, Installed, Pending, Present, Typed, Idle, At
  <2> QED
    BY <2>3, <2>4, <2>5, <2>6, <2>7 DEF Inv
<1> QED
  BY <1>2, <1>3 DEF Start

\* A start that stops in the delete leaves bytes that no row lists.
LEMMA StartFailsInv ==
  ASSUME Inv, StartFails
  PROVE  Inv'
<1>1. Typed'
  BY FaultTyped DEF Inv, Typed, StartFails, rows, RowStates, Installed, Bytes,
     Caveats
<1>2. OpShape'
  BY DEF Inv, OpShape, StartFails, At, files, rows, Deleting, StepsOf, Kinds,
     Idle, Fault
<1>3. OpRows'
  BY DEF Inv, OpRows, StartFails, At, files, rows, Deleting, OpShape, Idle,
     Installed, Fault
<1>4. OpBytes'
  BY DEF Inv, OpBytes, StartFails, At, files, rows, OpShape, Idle, Present,
     Bytes, Typed, Fault
<1>5. OneAside'
  BY StepsHaveKinds, NoneAside DEF Inv, OneAside, StartFails, At, files, rows,
     Pending, Owner, Deleting, Present, OpShape, Idle, Typed, StepKinds, Fault
<1>6. Somewhere'
  BY StepsHaveKinds DEF Inv, Somewhere, StartFails, At, files, rows, StepKinds,
     OpShape, Idle, OpRows, OpBytes, Installed, Typed, Bytes, Present,
     Deleting, Fault
<1>7. Undamaged'
  BY StepsHaveKinds DEF Inv, Undamaged, StartFails, At, files, rows, StepKinds,
     OpShape, Idle, OpRows, OpBytes, Installed, Typed, Bytes, Present,
     Deleting, Fault
<1> QED
  BY <1>1, <1>2, <1>3, <1>4, <1>5, <1>6, <1>7 DEF Inv

\* Nothing is aside between requests.
LEMMA StopInv ==
  ASSUME Inv, Stop
  PROVE  Inv'
<1>1. Typed'
  BY DEF Inv, Typed, Stop, files, rows, NoFault, RowStates, Installed, Bytes
<1>2. OpShape'
  BY DEF Inv, OpShape, Stop, At, files, rows, NoFault, Deleting, StepsOf,
     Kinds, Idle
<1>3. OpRows'
  BY DEF Inv, OpRows, Stop, At, files, rows, NoFault, Deleting, OpShape, Idle,
     Installed
<1>4. OpBytes'
  BY DEF Inv, OpBytes, Stop, At, files, rows, NoFault, OpShape, Idle, Present,
     Bytes, Typed
<1>5. OneAside'
  BY StepsHaveKinds, NoneAside DEF Inv, OneAside, Stop, At, files, rows,
     NoFault, Pending, Owner, Deleting, Present, OpShape, Idle, Typed,
     StepKinds
<1>6. Somewhere'
  BY StepsHaveKinds DEF Inv, Somewhere, Stop, At, files, rows, NoFault,
     StepKinds, OpShape, Idle, OpRows, OpBytes, Installed, Typed, Bytes,
     Present, Deleting
<1>7. Undamaged'
  BY StepsHaveKinds DEF Inv, Undamaged, Stop, At, files, rows, NoFault,
     StepKinds, OpShape, Idle, OpRows, OpBytes, Installed, Typed, Bytes,
     Present, Deleting
<1> QED
  BY <1>1, <1>2, <1>3, <1>4, <1>5, <1>6, <1>7 DEF Inv

\* A crash keeps the bytes, or is remembered in caveat.
LEMMA CrashInv ==
  ASSUME Inv, Crash
  PROVE  Inv'
<1>1. Typed'
  BY FaultTyped DEF Inv, Typed, Crash, rows, RowStates, Installed, Bytes,
     Caveats
<1>2. OpShape'
  BY DEF Inv, OpShape, Crash, At, files, rows, Deleting, StepsOf, Kinds, Idle,
     Fault
<1>3. OpRows'
  BY DEF Inv, OpRows, Crash, At, files, rows, Deleting, OpShape, Idle,
     Installed, Fault
<1>4. OpBytes'
  BY DEF Inv, OpBytes, Crash, At, files, rows, OpShape, Idle, Present, Bytes,
     Typed, Fault
<1>5. OneAside'
  BY StepsHaveKinds, NoneAside DEF Inv, OneAside, Crash, At, files, rows,
     Pending, Owner, Deleting, Present, OpShape, Idle, Typed, StepKinds, Fault
<1>6. Somewhere'
  BY StepsHaveKinds DEF Inv, Somewhere, Crash, At, files, rows, StepKinds,
     OpShape, Idle, OpRows, OpBytes, Installed, Typed, Bytes, Present,
     Deleting, Fault
<1>7. Undamaged'
  BY StepsHaveKinds DEF Inv, Undamaged, Crash, At, files, rows, StepKinds,
     OpShape, Idle, OpRows, OpBytes, Installed, Typed, Bytes, Present,
     Deleting, Fault
<1> QED
  BY <1>1, <1>2, <1>3, <1>4, <1>5, <1>6, <1>7 DEF Inv

\* Work begins with an active installation only.
LEMMA QueueWorkInv ==
  ASSUME Inv, QueueWork
  PROVE  Inv'
<1>1. Typed'
  BY DEF Inv, Typed, QueueWork, files, NoFault, RowStates, Installed, Bytes
<1>2. OpShape'
  BY DEF Inv, OpShape, QueueWork, At, files, NoFault, Deleting, StepsOf, Kinds,
     Idle
<1>3. OpRows'
  BY DEF Inv, OpRows, QueueWork, At, files, NoFault, Deleting, OpShape, Idle,
     Installed
<1>4. OpBytes'
  BY DEF Inv, OpBytes, QueueWork, At, files, NoFault, OpShape, Idle, Present,
     Bytes, Typed
<1>5. OneAside'
  BY StepsHaveKinds, NoneAside DEF Inv, OneAside, QueueWork, At, files,
     NoFault, Pending, Owner, Deleting, Present, OpShape, Idle, Typed,
     StepKinds
<1>6. Somewhere'
  BY StepsHaveKinds DEF Inv, Somewhere, QueueWork, At, files, NoFault,
     StepKinds, OpShape, Idle, OpRows, OpBytes, Installed, Typed, Bytes,
     Present, Deleting
<1>7. Undamaged'
  BY StepsHaveKinds DEF Inv, Undamaged, QueueWork, At, files, NoFault,
     StepKinds, OpShape, Idle, OpRows, OpBytes, Installed, Typed, Bytes,
     Present, Deleting
<1> QED
  BY <1>1, <1>2, <1>3, <1>4, <1>5, <1>6, <1>7 DEF Inv

\* Finished work frees the installation.
LEMMA FinishWorkInv ==
  ASSUME Inv, FinishWork
  PROVE  Inv'
<1>1. Typed'
  BY DEF Inv, Typed, FinishWork, files, NoFault, RowStates, Installed, Bytes
<1>2. OpShape'
  BY DEF Inv, OpShape, FinishWork, At, files, NoFault, Deleting, StepsOf,
     Kinds, Idle
<1>3. OpRows'
  BY DEF Inv, OpRows, FinishWork, At, files, NoFault, Deleting, OpShape, Idle,
     Installed
<1>4. OpBytes'
  BY DEF Inv, OpBytes, FinishWork, At, files, NoFault, OpShape, Idle, Present,
     Bytes, Typed
<1>5. OneAside'
  BY StepsHaveKinds, NoneAside DEF Inv, OneAside, FinishWork, At, files,
     NoFault, Pending, Owner, Deleting, Present, OpShape, Idle, Typed,
     StepKinds
<1>6. Somewhere'
  BY StepsHaveKinds DEF Inv, Somewhere, FinishWork, At, files, NoFault,
     StepKinds, OpShape, Idle, OpRows, OpBytes, Installed, Typed, Bytes,
     Present, Deleting
<1>7. Undamaged'
  BY StepsHaveKinds DEF Inv, Undamaged, FinishWork, At, files, NoFault,
     StepKinds, OpShape, Idle, OpRows, OpBytes, Installed, Typed, Bytes,
     Present, Deleting
<1> QED
  BY <1>1, <1>2, <1>3, <1>4, <1>5, <1>6, <1>7 DEF Inv

\* Bytes changed from outside are remembered in caveat.
LEMMA DamageInv ==
  ASSUME Inv, Damage
  PROVE  Inv'
<1>1. Typed'
  <2>1. faults' \in 0 .. MaxFaults
    BY FaultTyped DEF Damage
  <2>2. caveat' \subseteq Caveats
    BY DEF Inv, Typed, Damage, Caveats
  <2>3. leftover' \in BOOLEAN
    BY DEF Inv, Typed, Damage, files
  <2> QED
    BY <2>1, <2>2, <2>3 DEF Inv, Typed, Damage, files, rows, Bytes, RowStates, Installed
<1>2. OpShape'
  BY DEF Inv, OpShape, Damage, At, files, rows, Deleting, StepsOf, Kinds, Idle,
     Fault
<1>3. OpRows'
  BY DEF Inv, OpRows, Damage, At, files, rows, Deleting, OpShape, Idle,
     Installed, Fault
<1>4. OpBytes'
  BY DEF Inv, OpBytes, Damage, At, files, rows, OpShape, Idle, Present, Bytes,
     Typed, Fault
<1>5. OneAside'
  BY StepsHaveKinds, NoneAside DEF Inv, OneAside, Damage, At, files, rows,
     Pending, Owner, Deleting, Present, OpShape, Idle, Typed, StepKinds, Fault
<1>6. Somewhere'
  BY StepsHaveKinds DEF Inv, Somewhere, Damage, At, files, rows, StepKinds,
     OpShape, Idle, OpRows, OpBytes, Installed, Typed, Bytes, Present,
     Deleting, Fault
<1>7. Undamaged'
  BY StepsHaveKinds DEF Inv, Undamaged, Damage, At, files, rows, StepKinds,
     OpShape, Idle, OpRows, OpBytes, Installed, Typed, Bytes, Present,
     Deleting, Fault
<1> QED
  BY <1>1, <1>2, <1>3, <1>4, <1>5, <1>6, <1>7 DEF Inv

\* What the first transaction admits is what OpRows says of the request.
LEMMA BeginInv ==
  ASSUME Inv, NEW kind \in Kinds, Begin(kind)
  PROVE  Inv'
<1>1. NextOp(kind, "files", "none")
  BY DEF Begin, NextOp
<1>2. Typed'
  BY DEF Inv, Typed, Begin, NoFault, files, rows
<1>3. OpShape'
  BY <1>1 DEF OpShape, Begin, NextOp, StepsOf, Kinds, Deleting, At
<1>4. OpRows'
  BY <1>1 DEF Inv, Typed, OpRows, Begin, MayBegin, MayRemove, NextOp, Deleting, Kinds, rows,
     RowStates, Installed
<1>5. OpBytes'
  BY <1>1 DEF Inv, OpBytes, Begin, NextOp, Idle, Present, At, files, NoFault
<1>6. OneAside'
  <2>1. caveat \cap {"not undone", "not deleted"} = {} => Pending = {}
    BY NoneAside DEF Begin, Owner, Deleting, Idle
  <2> QED
    BY <2>1 DEF Inv, OneAside, Pending, Begin, files, NoFault
<1>7. Somewhere' /\ Undamaged'
  BY DEF Inv, Somewhere, Undamaged, Begin, Idle, At, files, rows, NoFault
<1> QED
  BY <1>2, <1>3, <1>4, <1>5, <1>6, <1>7 DEF Inv

----------------------------------------------------------------------------
\* No package, no row, no request: the invariant holds.
LEMMA InitInv == Init => Inv
<1> SUFFICES ASSUME Init PROVE Inv
  OBVIOUS
<1>1. Typed
  <2>1. tomb \in [Tomb -> Bytes]
    BY DEF Init, Bytes
  <2>2. faults \in 0 .. MaxFaults
    BY FaultAssumption DEF Init
  <2> QED
    BY <2>1, <2>2 DEF Init, Typed, Bytes, RowStates, Installed
<1>2. OpShape /\ OpRows /\ OpBytes
  BY DEF Init, OpShape, OpRows, OpBytes, Idle, Deleting, At, Present
<1>3. OneAside /\ Somewhere /\ Undamaged
  BY DEF Init, OneAside, Pending, Present, Somewhere, Undamaged, Installed
<1> QED
  BY <1>1, <1>2, <1>3 DEF Inv

\* Every step keeps the invariant.
LEMMA StepInv == Inv /\ [Next]_vars => Inv'
<1> SUFFICES ASSUME Inv, [Next]_vars PROVE Inv'
  OBVIOUS
<1>1. CASE UNCHANGED vars
  <2>1. Typed' /\ OpShape' /\ OpRows' /\ OpBytes'
    BY <1>1 DEF vars, files, rows, Inv, Typed, OpShape, OpRows, OpBytes, Deleting, At
  <2>2. OneAside' /\ Somewhere' /\ Undamaged'
    BY <1>1 DEF vars, files, rows, Inv, OneAside, Pending, Owner, Deleting, Somewhere, Undamaged, At
  <2> QED
    BY <2>1, <2>2 DEF Inv
<1>2. CASE RequestStep
  BY <1>2, InstallInv, PublishPackageInv, CheckPublishedInv, SetAsideInv, SwapInv, DropSpareInv,
     VerifyPackageInv, ActivateInv, DeactivateInv, RemoveInv, PersistInv, PutBackInv,
     RestoreMarkerInv, UndoInstallInv, BeginDeleteInv, DeleteInv DEF RequestStep
<1>3. CASE SwapFails \/ DropFails \/ PersistFails \/ UndoFails \/ DeleteFails
  BY <1>3, SwapFailsInv, DropFailsInv, PersistFailsInv, UndoFailsInv, DeleteFailsInv
<1>4. CASE Start \/ StartFails \/ Stop \/ Crash
  BY <1>4, StartInv, StartFailsInv, StopInv, CrashInv
<1>5. CASE QueueWork \/ FinishWork \/ Damage
  BY <1>5, QueueWorkInv, FinishWorkInv, DamageInv
<1> QED
  BY <1>1, <1>2, <1>3, <1>4, <1>5, BeginInv DEF Next

\* The inductive invariant holds in every reachable state: the types, what a
\* request at each step knows, and where the bytes of the package are.
THEOREM Invariance == Spec => []Inv
  BY InitInv, StepInv, PTL DEF Spec

\* An installation that the rows list has exact bytes somewhere on the disk,
\* whatever crashed or failed, as long as nobody outside touched them.
THEOREM BytesAreKept == Spec => []BytesKept
<1>1. Inv => BytesKept
  BY DEF Inv, Somewhere, BytesKept
<1> QED
  BY <1>1, Invariance, PTL

\* Between requests a listed installation is in its place, unless one of the
\* named accidents happened: a start resolves every commit window.
THEOREM InPlace == Spec => []InstalledIsInPlace
<1>1. Inv => InstalledIsInPlace
  <2> SUFFICES ASSUME Inv, service = "up", op = Idle, caveat = {}
               PROVE  (row \in Installed => place = "exact") /\ place # "wrong"
    BY DEF InstalledIsInPlace
  <2>1. \A t \in Tomb : tomb[t] = "absent"
    BY NoneAside DEF Owner, Deleting, Idle
  <2> QED
    BY <2>1 DEF Inv, Undamaged, Idle
<1> QED
  BY <1>1, Invariance, PTL

\* No unfinished or retryable audition job loses its installation.
THEOREM WorkIsSafe == Spec => []WorkKeepsInstallation
<1>1. Inv => WorkKeepsInstallation
  BY DEF Inv, OpRows, WorkKeepsInstallation
<1> QED
  BY <1>1, Invariance, PTL

\* A start is refused for a collision only after a failed cleanup.
THEOREM NoCollisionOfItsOwn == Spec => []StartsUnlessCleanupFailed
<1>1. Inv => StartsUnlessCleanupFailed
  BY DEF Inv, OneAside, StartsUnlessCleanupFailed
<1> QED
  BY <1>1, Invariance, PTL
=============================================================================
