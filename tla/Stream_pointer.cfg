\* The pointer form of Send and Recv, resumed after a partial result.
SPECIFICATION PointerOnly
CONSTANTS
  Forms = {"Send", "Recv"}
  MaxSize = 4
  Arrays <- ShortArrays
  MaxBeyond = 0
  HeadSize = 3
  Bodies <- ThreeBodies
  Asked = 0
  Garbled <- GarbledLengths
  Room = 1
INVARIANT InOrder
