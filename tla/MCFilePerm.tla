----------------------------- MODULE MCFilePerm -----------------------------
(* Agents and files of the permission handshake as model values.           *)
EXTENDS FilePerm

CONSTANTS a1, a2, p1, p2

MCAgents == {a1, a2}

MCPaths == {p1, p2}

=============================================================================
