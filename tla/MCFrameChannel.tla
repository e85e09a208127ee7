--------------------------- MODULE MCFrameChannel ---------------------------
(* The client asks for the versions of the tools, and sends a request; the   *)
(* server answers with its versions and a response.  All differ in type, so  *)
(* that acknowledges can be left in a read buffer.  A long frame takes two   *)
(* segments, others one.                                                     *)
EXTENDS FrameChannel

CONSTANTS ask, request, versions, response, Long

MCSenderOf == [f \in Frames |-> IF f \in {ask, request} THEN "client" ELSE "server"]
MCTypeOf == [f \in Frames |-> f]
MCLengthOf == [f \in Frames |-> IF f \in Long THEN 3 ELSE 1]
MCAnswerTo == [f \in Frames |-> CASE f = versions -> ask [] f = response -> request
                                  [] OTHER -> None]
=============================================================================
