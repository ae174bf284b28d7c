---------------------------- MODULE MCPublication ----------------------------
EXTENDS ArtifactPublication

\* Two images, of one key or of two.
Image(key) == [kind |-> "image", key |-> key]
TwoImages == {<<Image(1), Image(1)>>, <<Image(1), Image(2)>>}
==============================================================================
