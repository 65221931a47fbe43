------------------------ MODULE MCStreamedCompletion ------------------------
(* Replies of prose whose letters recur, of prose with a call in each of   *)
(* its forms, and one spoilt by a channel wrapper.                         *)
EXTENDS StreamedCompletion
MCReplies ==
    { <<"l", "l", "o">>,
      <<"e", "l", "call", "args">>,
      <<"l", "markup">>,
      <<"json", "l">>,
      <<"e", "json", "l">>,
      <<"e", "wrapper", "l">> }
=============================================================================
