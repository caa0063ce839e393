---------------------------- MODULE MCApiProcess ----------------------------
(* Small instances of ApiProcess for TLC. *)
EXTENDS ApiProcess

\* The "synthetic tree in tests" of Run's comment, with the files at its root and
\* written as goose requires.  Nothing in src/ has such files; without them no
\* process passes the schema step, and there is no service to stop.
MCSynthetic == 1 .. Newest

\* What main hands to the runner: go:embed all:sql without fs.Sub has one
\* directory and no file at its root, and no file under it is annotated for goose.
MCAsEmbedded == {}

=============================================================================
