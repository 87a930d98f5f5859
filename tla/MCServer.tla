------------------------------ MODULE MCServer ------------------------------
(* What a management API pushes: the certificates of MgmtApiConfig.         *)
EXTENDS Server

CONSTANTS inboundCreds, outboundCreds

Creds == {inboundCreds, outboundCreds}
OfRequests == {outboundCreds}
=============================================================================
