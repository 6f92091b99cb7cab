\* The scheduler's swaps and splices.
SPECIFICATION Spec
CONSTANTS Texts <- MCTexts
          Cells <- MCCells
          Machines <- MCMachines
          MaxTurn = 30
INVARIANTS TypeOK SameUnlessOvertaken
PROPERTIES NeverMoreSwitches Ends
