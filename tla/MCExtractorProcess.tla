-------------------------- MODULE MCExtractorProcess --------------------------
(* One run of an extractor that may write more than either limit.          *)
EXTENDS ExtractorProcess
=============================================================================
