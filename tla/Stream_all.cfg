\* All overloads of Send and Recv; buffers of up to six bytes; a connection
\* of the examples with three packets over sockets that hold four bytes.
SPECIFICATION All
CONSTANTS
  Forms = {"Send", "Recv", "SendFor", "RecvFor"}
  MaxSize = 6
  Arrays <- ShortArrays
  MaxBeyond = 1
  HeadSize = 3
  Bodies <- ThreeBodies
  Asked = 2
  Garbled <- GarbledLengths
  Room = 4
INVARIANTS TimedInOrder ResultsTrue NothingSkipped ReturnsTrue BytesAccounted
PROPERTIES NothingLeftBehind ClosedFreed GoesQuiet
