---------------------------- MODULE MCConnection ----------------------------
(* One client, one server, for TLC.  Three requests let one be written, one  *)
(* wait in m_qMessagesOut behind it and one be posted behind both.           *)
EXTENDS Connection
=============================================================================
