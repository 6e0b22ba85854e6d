----------------------------- MODULE MCSession -----------------------------
(* Small instances of Session for TLC. *)
EXTENDS Session

\* A client that authenticates, pipelines single-key and local commands and
\* uses transactions, but sends no multi-key or read-all command.
SingleKeyCmds == {"AUTH_OK", "AUTH_BAD", "PING", "MULTI", "EXEC", "GENERAL"}

\* A client that also pipelines multi-key and read-all commands.
AllCmds == Cmds

\* A client that opens transactions and sends, inside and outside them,
\* queueable, local and unsupported commands.
TxCmds == {"MULTI", "EXEC", "GENERAL", "UNKNOWN", "PING"}
=============================================================================
