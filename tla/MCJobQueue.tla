----------------------------- MODULE MCJobQueue -----------------------------
(* Instances of JobQueue for TLC.                                          *)
EXTENDS JobQueue, TLC

CONSTANTS x1, x2, s, w, c1, c2, a1, a2, evidence, session, k1, k2

MCTypeOf == [t \in Target |->
               IF t \in {x1, x2} THEN "extract_document"
               ELSE IF t = s THEN "analyze_story"
               ELSE IF t = w THEN "analyze_whole_book"
               ELSE IF t \in {c1, c2} THEN "analyze_casting"
               ELSE "generate_audition"]
MCInputOf == [t \in Target |-> IF t \in {c1, c2} THEN evidence ELSE session]

KeySymmetry == Permutations(Key)
=============================================================================
