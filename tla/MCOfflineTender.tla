--------------------------- MODULE MCOfflineTender ---------------------------
(* One register and a cart of it, two openings of the tender dialog, two    *)
(* replays at once.                                                          *)
EXTENDS OfflineTender
=============================================================================
