---------------------------------- MODULE MCSidecar ----------------------------------
EXTENDS Sidecar

\* Only the audio clean-up carries a whole clip in its request; its answer and
\* the answer of a narration do too
MCLongRequests == {"clean"}
MCLongAnswers == {"clean", "synthesize"}

======================================================================================
