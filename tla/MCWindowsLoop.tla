-------------------------- MODULE MCWindowsLoop --------------------------
(* Small instances of WindowsLoop for TLC. *)
EXTENDS WindowsLoop, TLC

CONSTANTS el1, a1, e1, d1, t1, nil, absent

\* An accepted connection, a datagram and a closure together; an enrolment with a closure,
\* and with a datagram.  The channel has one place, so that two items fill it.
MCScenarios == {{a1, d1, t1}, {e1, t1}, {e1, d1}}
==========================================================================
