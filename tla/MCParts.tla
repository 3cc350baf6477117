------------------------------ MODULE MCParts -------------------------------
\* Parts on small instances.
EXTENDS Parts

\* Lengths around every limit of a frame's header and of a close frame.
MCLengths == {0, 1, 2, 3, 4, 5, 8, 122, 123, 124, 125, 126, 127, 128, 255, 256, 32768, 65535,
              65536, 65537, 16777216}
MCMasks == {<<0, 0, 0, 0>>, <<1, 0, 1, 1>>, <<0, 1, 1, 0>>}

\* Urls, and the paths they are meant for.
MCUrls == {<<<<"/">>, <<"/">>>>,
           <<<<"/", "/", "player", ".", "js", "?", "v">>, <<"/", "player", ".", "js">>>>,
           <<<<"/", "mjpeg">>, <<"/", "mjpeg">>>>,
           <<<<"/", "stream", "/">>, <<"/", "stream">>>>,
           <<<<"/", "ws", "test">>, <<"/", "ws", "test">>>>,
           <<<<"/", "nowhere">>, <<"/", "nowhere">>>>}

\* -1, 0, 8 and 9x, and digits that are no int.
MCTexts == {<<-1, FALSE>>, <<0, TRUE>>, <<8, TRUE>>, <<9, FALSE>>, <<1000000, TRUE>>}

\* Screens of close areas, one turned, and a larger one.
MCDisplays == {<<40, 41>>, <<41, 40>>, <<41, 41>>, <<60, 40>>}

\* The powers of two up to that of the largest key.
MCUnits == {2^k : k \in 0..12}

\* A wide screen, the same turned, and a square one, in a widget.
MCScreens == {<<8, 4>>, <<4, 8>>, <<8, 8>>}
MCBox == <<4, 2>>
=============================================================================
