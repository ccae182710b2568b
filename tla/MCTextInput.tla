----------------------------- MODULE MCTextInput -----------------------------
(* Instances of TextParser and TextDirStream for TLC. *)
EXTENDS TextParser

\* Files of a few bytes, with new lines and lines that parse at every place.
SmallFiles == UNION {[1 .. n -> {"\n", "good"}] : n \in 1 .. 5}
OneFile == {<<f>> : f \in SmallFiles}
TwoFiles == {<<f, g>> : f, g \in UNION {[1 .. n -> {"\n", "good"}] : n \in 1 .. 3}}

N == "\n"
A == "good"
\* Five files give each reader two whole files at a time.
Five == <<<<A, N>>, <<A>>, <<A, A, A, A, N>>, <<N, A>>, <<A, N, A>>>>
\* Three files for two readers, the last of which they share; one has a line
\* that does not parse, one a line that gives nothing.
Mixed == {Five, <<<<A, N, A>>, <<A, N>>, <<A, A, N, N, A>>>>,
          <<<<A, N, "bad", N, A, N>>, <<>>, <<A, N, N>>>>,
          <<<<"none", N, A, N>>, <<A>>, <<A, N, A>>>>}
MCReadDirs == Mixed \cup OneFile
MCDirectories == OneFile \cup TwoFiles \cup Mixed
=============================================================================
