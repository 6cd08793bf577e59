---------------------------- MODULE MCPluginAbi -----------------------------
(* PluginAbi at seven bits, a word of 128 values: large enough for payloads *)
(* that fit, reach the module's memory, miss it, and wrap when rounded.     *)
EXTENDS PluginAbi
=============================================================================
