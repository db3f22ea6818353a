---------------------------- MODULE MCSocketBuffer ----------------------------
\* TLC instance of SocketBuffer: a buffer that grows 1 -> 2 -> 3 (max_line_length
\* 3 cuts the last doubling short), blocks shorter and longer than the buffer.
EXTENDS SocketBuffer

MCByte == {"nl", "sp", "a"}
MCSpace == {"nl", "sp"}
MCReadLengths == {0, 1, 4}
===============================================================================
