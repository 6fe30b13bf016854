------------------------------- MODULE MCSpeech -------------------------------
EXTENDS Speech
Parts == {<<"tool">>, <<"text", "text">>, <<"text", "turn">>, <<"note", "audio">>, <<"audio", "turn">>,
          <<"turn">>, <<"interrupted">>, <<"audio", "text", "audio">>}
===============================================================================
