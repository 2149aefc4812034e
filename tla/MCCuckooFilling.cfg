SPECIFICATION FillSpec
CONSTANTS
  Keys = {0,1,2,12,21,23,33,34,43}
  Values = {v}
  INVALID = INVALID
  FHash <- MCFirst
  SHash <- MCSecond
  kCuckooThreshold = 4
  size = 5
INVARIANTS
  FoundPathIsPath
  EachInItsPlace
  GivesUpWhenFullOrCutOff
PROPERTIES
  AddsOrRemovesOne
