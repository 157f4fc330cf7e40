------------------------------ MODULE MCSignIn ------------------------------
(* Small instances of SignIn. *)
EXTENDS SignIn

CONSTANTS p1, p2

\* The server sends reset codes except where the page came by an invitation, which
\* has no use for them; calls fail where the server wants codes.
FourSettings ==
  {s \in Setting : /\ s.reset = ~s.invited
                   /\ s.smooth \/ s.otp
                   /\ s.invited => s.otp /\ ~s.smooth}
=============================================================================
