-------------------------- MODULE MCNfcReaderManager --------------------------
(* Instances of NfcReaderManager for TLC: managers and activities are model values. *)
EXTENDS NfcReaderManager
=============================================================================
