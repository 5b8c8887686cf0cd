-------------------------- MODULE MCTunnelOpening --------------------------
EXTENDS TunnelOpening

\* Headers shorter than a hello, and longer: what follows the hello that an
\* encrypted server takes from them is read as a length below the tag, or as a
\* length and a ciphertext.
MCHeaders == {<<1>>, <<1, 3, 0, 0, 3, 3>>, <<1, 3, 0, 1, 3>>}

\* Hellos that spell a length which the rest of them cannot fill, and hellos that
\* begin with a frame: a header, a status of success, an empty one.
MCHellos == {<<3, 0, 1, 2>>, <<0, 3, 0, 0>>,
             <<0, 1, 1, 2>>, <<0, 1, 0, 2>>, <<0, 0, 1, 3>>}

\* With the status, more than a client takes for a hello.
MCRaw == <<0, 1, 2>>
=============================================================================
