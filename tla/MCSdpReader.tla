---------------------------- MODULE MCSdpReader ----------------------------
(* A small instance of SdpReader. *)
EXTENDS SdpReader

\* Empty, ordinary, as long as the buffer allows, too long, and so long that the
\* sum with the header size overflows.
Lengths == {0, 1, 2, MAX_U32}

=============================================================================
