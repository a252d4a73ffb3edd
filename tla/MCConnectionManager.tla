------------------------ MODULE MCConnectionManager ------------------------
(* Instances of ConnectionManager for TLC. *)
EXTENDS ConnectionManager, TLC

(* The chain the server builds outside of DEBUG builds (addToBeg reverses  *)
(* the order of the calls, Server.cpp:110-121).                            *)
DeployedChain ==
    <<"ConnectionCounter", "HeaderChecker", "WorldChecker", "SessionChecker",
      "BanChecker">>

(* A chain with the captcha check of Server.cpp:111 put back in, and in    *)
(* which a refusal may come before the counter is told of the connection.  *)
CheckedChain ==
    <<"WorldChecker", "ConnectionCounter", "SessionChecker", "BanChecker",
      "CaptchaChecker">>

Symmetry == Permutations(Sockets)
=============================================================================
