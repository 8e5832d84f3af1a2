---------------------------- MODULE MC_SshServer ----------------------------
(* The SSH server with a few packets, channels and host keys.              *)
EXTENDS SshServer, TLC

CONSTANTS k1, k2, k3

(* A key in use, one in the file, and a fresh one.                         *)
MCKeys == {k1, k2, k3}

=============================================================================
