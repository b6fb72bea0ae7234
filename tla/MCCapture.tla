------------------------------ MODULE MCCapture ------------------------------
(***************************************************************************)
(* A desk for Capture: an editor, a browser on a bank's login page with    *)
(* its password field in focus, a password manager that the list names as  *)
(* a whole program and an authentication prompt that it names as a         *)
(* pattern; two monitors; a blocklist file that adds the editor or nothing.*)
(***************************************************************************)
EXTENDS Capture

CONSTANTS d1, d2

Editor == [program |-> "editor", page |-> "notes"]
Bank == [program |-> "browser", page |-> "bank"]
Manager == [program |-> "manager", page |-> "vault"]
Prompt == [program |-> "sudo", page |-> "prompt"]

MCWindows == {Editor, Bank, Manager, Prompt}

On(fore, shown, secret) == [fore |-> fore, shown |-> shown, secret |-> secret]

Plain == On(Editor, {Editor}, Nowhere)
Hidden == On(Editor, {Editor, Manager}, Nowhere)

MCDesktops == {
    Plain,
    On(Bank, {Bank}, d1),
    On(Editor, {Editor, Prompt}, Nowhere)}

\* The manager is behind the editor.
BehindDesktops == {Plain, Hidden}

Named(kind, what) == [kind |-> kind, what |-> what, exe |-> FALSE]

MCDefaults == {Named("app", "manager"), Named("auth", "sudo"), Named("page", "bank")}
MCFiles == {{}, {Named("app", "editor")}}
=============================================================================
