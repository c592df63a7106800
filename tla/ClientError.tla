---------------------------- MODULE ClientError ----------------------------
(***************************************************************************)
(* The result type of every fallible operation of the crate                *)
(* (src/src/error.rs): Ok carries a value, Err one kind of ClientError.    *)
(* Messages and their wording are left out; the field name that            *)
(* InvalidRequestPart carries is kept, because it tells a caller which     *)
(* check refused the request.                                              *)
(***************************************************************************)

CONSTANT GARBLED  \* a header, field or body that does not parse

Ok(value)  == [ok |-> TRUE, value |-> value]
Err(error) == [ok |-> FALSE, error |-> error]

InvalidRequestPart(field)   == <<"InvalidRequestPart", field>>
InvalidPublicKey            == <<"InvalidPublicKey">>
InvalidSignature            == <<"InvalidSignature">>
Transport                   == <<"Transport">>
MalformedKernelIdentity     == <<"MalformedKernelIdentity">>
InvalidTrustAnchor          == <<"InvalidTrustAnchor">>
EnrollmentRejected          == <<"EnrollmentRejected">>
MalformedEnrollmentResponse == <<"MalformedEnrollmentResponse">>
=============================================================================
