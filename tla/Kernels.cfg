SPECIFICATION KSpec
CONSTANTS
  Calls <- MCCalls
  Weight <- MCWeight
  Code <- MCCode
  Silu <- MCSilu
  Sigmoid <- MCSigmoid
  Tanh <- MCTanh
  Softmax <- MCSoftmax
  MaxMK = 192
  Sample <- MCSample
INVARIANTS KernelsTypeOK ProductExact MultiplesOfEightRun GruExact QuantiserBounds WinogradClose FftExact ConvExact BlobConsumed AttentionExact
