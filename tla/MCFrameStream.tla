--------------------------- MODULE MCFrameStream ---------------------------
(* Frames of the three protocols, in both directions, and service segments    *)
(* between them.                                                              *)
EXTENDS FrameStream
Header(transaction) ==
  <<Bytes(70000, 8), Bytes(transaction, 8), [i \in 1 .. 8 |-> 255]>>
Frame(type, transaction, fields) ==
  [type |-> type, value |-> Header(transaction) \o fields]
A == 97
B == 98
NoCompression == <<Bytes(0, 4), Bytes(3, 4)>>
Request(args) ==
  Frame(17, 258, <<<<A>>, Bytes(513, 8), <<B, B>>, args, <<A, B>>, NoCompression>>)
Server == <<<<A>>, <<B>>, Bytes(7767, 2), <<<<A>>, << >>>>, Bytes(8, 2), Bytes(0, 2),
            Bytes(260, 2), <<<<Bytes(1, 2), <<B>>, Bytes(9, 8)>>>>>>
Session == <<<<A>>, Bytes(3, 8), Bytes(65537, 8), Bytes(2, 4), Bytes(1, 4), Bytes(4, 4)>>
MCScripts ==
  {[protocol |-> "tools",
    messages |-> <<Frame(19, 1, << >>),
                   Request(<<<<A, Quote>>, <<Backslash, B>>>>),
                   Request(<<<<Quote, A, Space, B, Quote>>, <<Backslash, B>>>>)>>],
   [protocol |-> "tools",
    messages |-> <<Frame(18, 2, <<<<1>>, << >>, <<A>>, Bytes(4, 8), NoCompression>>),
                   Frame(20, 3, <<<<<<<<A>>, <<B>>>>, <<<<B>>, << >>>>>>>>)>>],
   [protocol |-> "proxy",
    messages |-> <<Frame(17, 4, <<<<<<A>>, <<B, Quote>>>>, <<A>>, <<B>>>>),
                   Frame(17, 5, <<<< >>, <<A>>, <<B>>>>)>>],
   [protocol |-> "proxy", messages |-> <<Frame(18, 6, <<<<0>>, <<A, B>>>>)>>],
   [protocol |-> "coordinator",
    messages |-> <<Frame(17, 7, << >>), Frame(19, 8, <<Server>>),
                   Frame(20, 9, <<<<1>>, Session>>)>>],
   [protocol |-> "coordinator",
    messages |-> <<Frame(18, 10, <<<<Server>>, <<Session, Session>>, << >>>>)>>]}
MCServices == {[type |-> AckType, amount |-> 300], [type |-> LineTestType, amount |-> 0],
               [type |-> OptionsType, amount |-> 4096], [type |-> StatusType, amount |-> 258]}
=============================================================================
