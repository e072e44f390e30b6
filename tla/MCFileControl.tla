--------------------------- MODULE MCFileControl ---------------------------
(* FileControl for a few requests and servers.                              *)
EXTENDS FileControl
=============================================================================
