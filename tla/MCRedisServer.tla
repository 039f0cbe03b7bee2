--------------------------- MODULE MCRedisServer ---------------------------
EXTENDS RedisServer

McByte == {"G", "S", "P", "k", "*", CR, LF}

\* a read, three writes: a value that looks like protocol, an empty one and nil;
\* a ping, and one with a text
McQuery == {<<<<"G">>, <<"k">>>>,
              <<<<"S">>, <<"k">>, <<CR, LF, "*">>>>,
              <<<<"S">>, <<"k">>, <<>>>>,
              <<<<"S">>, <<"k">>, NoBytes>>,
              <<<<"P">>>>, <<<<"P">>, <<>>>>}

\* the impatient client: a value that looks like protocol, an empty one, and what
\* is no command
McPiped == {<<<<"S">>, <<"k">>, <<CR, LF, "*">>>>, <<<<"S">>, <<"k">>, <<>>>>,
            <<>>, BadLine, NegMulti}
=============================================================================
