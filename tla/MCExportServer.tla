--------------------------- MODULE MCExportServer ---------------------------
(* Model-checking instance of ExportServer. *)
EXTENDS ExportServer

=============================================================================
