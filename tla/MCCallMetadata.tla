--------------------------- MODULE MCCallMetadata ---------------------------
(* A small instance of CallMetadata for TLC. *)
EXTENDS CallMetadata

\* A plain name, a -bin name, a reserved one, and one spelled like a trailer's.
MCReqNames  == {Name(0, "foo"), Name(0, "foo-bin"), Name(0, "content-type"), Name(1, "foo")}
MCRespNames == MCReqNames
=============================================================================
