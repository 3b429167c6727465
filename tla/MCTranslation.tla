---------------------------- MODULE MCTranslation ----------------------------
EXTENDS Translation

MCApps == {Gx, Rx, 9}
MCCodes == {272, 280, 999}
MCIds == {0, 5}
MCDictionarySets == {{}, {Gx}, {0, Rx}, {Gx, 9}}
MCComplete == {0, Gx, Rx, 9}
MCUris == {<<<<"diameter", 0>>, <<"gx", 0>>>>,
           <<<<"diameter", 0>>, <<"rx", 0>>, <<"STA", 0>>>>,
           <<<<"diameter", 0>>, <<"gx", 0>>, <<"CCR", 0>>, <<"Session-Id", 0>>>>,
           <<<<"diameter", 0>>, <<"gx", 0>>, <<"DWR", 0>>>>}

W(f, v) == [flags |-> f, value |-> v]
MCWords == {W(0, 263), W(0, 0), W(64, 7), W(64, 8), W(64, 9), W(128, 12)}
MCSizes == {0, 20, 27, 28, 36}
=============================================================================
