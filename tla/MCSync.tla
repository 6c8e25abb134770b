------------------------------- MODULE MCSync -------------------------------
(***************************************************************************)
(* Synchronized updates on outputs made of BSU, ESU, a lone escape         *)
(* character and text.  Escapes have three bytes instead of eight: enough  *)
(* for a read to cut one in every way.                                     *)
(***************************************************************************)
EXTENDS SyncSpec, SequencesExt

CONSTANT MaxTokens      \* bound on the output, in tokens

Bsu == <<"esc", "m", "h">>
Esu == <<"esc", "m", "l">>
Tokens == {Bsu, Esu, <<"esc">>, <<"x">>}

TokenOutputs ==
    {FlattenSeq(ts) : ts \in UNION {[1 .. n -> Tokens] : n \in 1 .. MaxTokens}}
=============================================================================
