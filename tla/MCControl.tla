------------------------------ MODULE MCControl ------------------------------
(* Small instances of Control: a command and an MCP server.                *)
EXTENDS Control

CONSTANTS cmd, mcp
=============================================================================
