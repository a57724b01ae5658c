--------------------------- MODULE MCLetterIssuance ---------------------------
(* Instances of LetterIssuance for TLC; the runs differ in their .cfg.       *)
EXTENDS LetterIssuance, TLC

\* Requests, calls and jobs are interchangeable.
Symmetry == Permutations(Requests) \cup Permutations(Generators)
              \cup Permutations(Reviewers) \cup Permutations(PdfWorkers)
=============================================================================
