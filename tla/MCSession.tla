----------------------------- MODULE MCSession ------------------------------
(* Instances of Session for TLC. *)
EXTENDS Session

Cmd(v, a) == [verb |-> v, arg |-> a]

\* Every branch of every handler. "?" is an argument parsePath refuses, "x" a
\* superfluous one, "nowhere" a recipient without a route. AUTH and an unknown
\* command differ from NOOP in the reply code only.
MCCommands ==
    {Cmd("EHLO", "h"), Cmd("HELO", ""), Cmd("STARTTLS", ""),
     Cmd("STARTTLS", "x"), Cmd("MAIL", "a"), Cmd("MAIL", "?"),
     Cmd("RCPT", "r"), Cmd("RCPT", "nowhere"), Cmd("RCPT", "?"),
     Cmd("DATA", ""), Cmd("DATA", "x"), Cmd("RSET", ""), Cmd("NOOP", ""),
     Cmd("QUIT", ""), Cmd("lf", ""), Cmd("long", "")}

MCSenders    == {"a"}
MCRecipients == {"r", "nowhere"}
MCRouted     == {"r"}

\* With its CRLF an empty "text" adds 2 octets to a message, any other line 3.
MCBodyLines == Kinds
MCOctets == [v \in MCBodyLines \cup {l.verb : l \in MCCommands} |->
                IF v = "text" THEN 0 ELSE 1]
=============================================================================
