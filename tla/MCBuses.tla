-------------------------------- MODULE MCBuses --------------------------------
EXTENDS Buses

MCFormats == {[bits |-> 8, mode |-> 0], [bits |-> 16, mode |-> 3]}

\* A newline alone, twice, at the end and in the middle; and none.
MCTexts ==
  {<<>>, <<"nl">>, <<"a", "a">>, <<"a", "nl">>, <<"nl", "nl", "a">>,
   <<"a", "nl", "a", "nl">>}

MCPulls == {{}, {"up"}}
MCMasks == {{"rise"}, {"fall", "rise"}}
=============================================================================
