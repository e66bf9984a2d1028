---------------------------- MODULE MCOpenFiles ----------------------------
(* OpenFiles for TLC.                                                      *)
EXTENDS OpenFiles

\* The failures looked at are those of requests that give no file a second
\* name: neither of a link nor of a rename until its old name is gone.
Relinks ==
  \E k \in DOMAIN todo :
    \/ todo[k].do = "by" /\ todo[k].by = 1
    \/ todo[k].do \in {"clear", "unlink", "by"} /\ todo[k].fail # <<>>
FailsElsewhere == faults' > faults => ~Relinks

\* One failure in a behaviour, of a lookup or of a transfer.
OneFailure == faults + misses <= 1
=============================================================================
