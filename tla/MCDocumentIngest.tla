--------------------------- MODULE MCDocumentIngest ---------------------------
(***************************************************************************)
(* Model-checking instances of DocumentIngest.  The jobs of a document are *)
(* interchangeable.                                                        *)
(***************************************************************************)
EXTENDS DocumentIngest, TLC

Symmetry == Permutations(Job)

\* A question paper, by clients that wait for each other.  No reading of it is
\* good: that would only spare the second reading, as params "fixed" do.
Careful == [kind |-> "question_paper", plain |-> FALSE,
            yield |-> {"blank", "none", "weak"}, keepOriginals |-> FALSE,
            maxTries |-> 2, maxRestarts |-> 1, serial |-> TRUE]

\* The same paper by clients that do not wait.
Careless == [Careful EXCEPT !.yield = {"weak"}, !.maxTries = 1, !.maxRestarts = 0,
                            !.serial = FALSE]

\* An answer key where originals are kept.
Kept == [Careful EXCEPT !.kind = "answer_key", !.yield = {"blank", "good"},
                        !.keepOriginals = TRUE]

\* Text that never had a file.
TextOnly == [Careless EXCEPT !.plain = TRUE, !.yield = {"none", "good"},
                             !.maxRestarts = 1]

AllSetups == {Careful, Careless, Kept, TextOnly}
=============================================================================
