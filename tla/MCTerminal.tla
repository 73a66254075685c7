----------------------------- MODULE MCTerminal -----------------------------
(***************************************************************************)
(* What a person sees, types and reads again: the messages and the team    *)
(* commands of nbs-chat-terminal, its line and paste editors, its /bash    *)
(* window, the list of messages of /browse and nbs-chat-edit, the screen   *)
(* emulator of nbs-ts-render, the encoding of a message in its line of the *)
(* file, and the decision log.                                             *)
(* They share no state, so that an instance runs one of them, chosen in    *)
(* the initial state; the others rest in their own.                        *)
(***************************************************************************)
EXTENDS Terminal, LineEditor, Screen, BashView, ChatEdit, Base64, ScribeLog

VARIABLE part

MCCommands == {<<"/", "x", "x">>}
MCPatterns == {{1, 3}}
\* All messages of up to four bytes, and some whose lines fill the buffer of
\* chat_read, exceed it, and are read in five pieces.
MCRaws ==
    UNION {[1 .. n -> RawBytes] : n \in 1 .. 4}
    \cup {[i \in 1 .. n |-> IF i % 7 < 3 THEN 1 ELSE IF i % 7 < 5 THEN 97 ELSE 255] :
             n \in {6, 7, 9, 33, 34, 35, 36, 37}}
MCPaste == <<"/", "x", "x">>

terminalvars == <<part, ttyvars, evars, svars, bvars, cvars, b64vars, scribevars>>

TerminalInit ==
    /\ part \in {"chat", "team", "editor", "screen", "bash", "edit", "line", "scribe"}
    /\ Init /\ EInit /\ SInit /\ BInit /\ CInit /\ B64Init /\ ScribeInit
    /\ part # "team" => ~paused /\ sidecars
    /\ part # "edit" => file = <<1>> /\ browsing /\ height = 1 /\ found = {}

TerminalNext ==
    /\ UNCHANGED part
    /\ \/ part = "chat" /\ ChatNext /\ UNCHANGED <<evars, svars, bvars, cvars, b64vars, scribevars>>
       \/ part = "team" /\ TeamNext
          /\ UNCHANGED <<evars, svars, bvars, cvars, b64vars, scribevars>>
       \/ part = "editor" /\ ENext
          /\ UNCHANGED <<ttyvars, svars, bvars, cvars, b64vars, scribevars>>
       \/ part = "screen" /\ SNext
          /\ UNCHANGED <<ttyvars, evars, bvars, cvars, b64vars, scribevars>>
       \/ part = "bash" /\ BNext
          /\ UNCHANGED <<ttyvars, evars, svars, cvars, b64vars, scribevars>>
       \/ part = "edit" /\ CNext
          /\ UNCHANGED <<ttyvars, evars, svars, bvars, b64vars, scribevars>>
       \/ part = "line" /\ B64Next
          /\ UNCHANGED <<ttyvars, evars, svars, bvars, cvars, scribevars>>
       \/ part = "scribe" /\ ScribeNext
          /\ UNCHANGED <<ttyvars, evars, svars, bvars, cvars, b64vars>>

TerminalSpec ==
    TerminalInit /\ [][TerminalNext]_terminalvars /\ WF_ttyvars(Poll)
=============================================================================
