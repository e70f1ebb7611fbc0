------------------------ MODULE MCExceptionHandlers ------------------------
(* Instance of ExceptionHandlers.                                          *)
EXTENDS ExceptionHandlers
=============================================================================
