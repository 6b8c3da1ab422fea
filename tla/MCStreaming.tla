---------------------------- MODULE MCStreaming ----------------------------
(***************************************************************************)
(* Streaming for TLC: bodies of up to two messages and up to two responses *)
(* in every deployment; conversations of two turns.                        *)
(***************************************************************************)
EXTENDS Streaming

Request(kind, msgs, end) ==
  [kind : {kind}, msgs : {msgs}, end : {end}, gzip : BOOLEAN, requestContext : BOOLEAN,
   deadline : BOOLEAN, faults : BOOLEAN, leaves : BOOLEAN, talks : {FALSE}]

Conversation ==
  [kind |-> "bidi", msgs |-> 2, end |-> "eof", gzip |-> FALSE, requestContext |-> TRUE,
   deadline |-> FALSE, faults |-> FALSE, leaves |-> FALSE, talks |-> TRUE]

MCSetups ==
  UNION { Request("server", 0, "eof"), Request("client", 2, "eof"), Request("client", 1, "bad"),
          Request("bidi", 2, "eof"), Request("bidi", 1, "bad"), { Conversation } }
=============================================================================
