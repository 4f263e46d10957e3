------------------------------ MODULE WebBase ------------------------------
(***************************************************************************)
(* What the modules of the web page share: the projects its user can see    *)
(* and the calls of client.ts a component can have under way at a time.     *)
(***************************************************************************)
CONSTANTS
    Projects,         \* projects of the page
    DefaultProject,   \* the project the server takes when a call names none
    Calls             \* calls under way

ASSUME DefaultProjectAssumption == DefaultProject \in Projects
=============================================================================
