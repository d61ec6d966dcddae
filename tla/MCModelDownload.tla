---------------------------- MODULE MCModelDownload ----------------------------
EXTENDS ModelDownload

\* The file grows and then shrinks: a part of one version may be shorter than the
\* next one, as long as its beginning, or longer than the whole of it.
Sizes == <<2, 3, 1>>
=============================================================================
